---- MODULE Spec2Model ----
(***************************************************************************)
(* A2A task protocol (models.py, a2a_server.py, a2a_client.py) and the     *)
(* Planner/Reviewer negotiation loop (orchestrator.py).                    *)
(*                                                                         *)
(* Python values are encoded as follows.                                   *)
(*   Optional[X]   : <<>> is None, <<x>> is the value x.                   *)
(*   dict          : a record; a key that is absent is absent from the     *)
(*                   record's DOMAIN, so d.get(k, default) is Get below.   *)
(*   str           : a string; NonStr stands for a JSON value that is not  *)
(*                   a string where pydantic requires one.                 *)
(*   float seconds : an integer number of tenths of a second, so that      *)
(*                   int(x) is a real truncation.                          *)
(*   f-strings     : a record of the interpolated parts.                   *)
(***************************************************************************)
EXTENDS Integers, Sequences, FiniteSets, TLC

VARIABLES wf, orchestrator, task_handler, req

vars == <<wf, orchestrator, task_handler, req>>

-----------------------------------------------------------------------------
(* Python helpers *)

None == <<>>

Some(x) == <<x>>

IsNone(o) == Len(o) = 0

\* bool(x) of an Optional[str]: None and "" are falsy
Truthy(o) == ~IsNone(o) /\ o[1] # ""

\* Python's `a or b` on two Optional[str]
OrElse(a, b) == IF Truthy(a) THEN a ELSE b

\* dict.get(key, default)
Get(d, key, default) == IF key \in DOMAIN d THEN d[key] ELSE default

NonStr == "<not-a-str>"

IsStr(v) == v # NonStr

-----------------------------------------------------------------------------
(* models.py *)

TaskStateValues == {"pending", "running", "completed", "failed", "cancelled"}

COMPLETED == "completed"

FAILED == "failed"

\* TaskStatus(state=..., output=..., message=..., error=...): the three
\* Optional fields default to None and no validator relates them.
TaskStatus(state, output, message, error) ==
    [state |-> state, output |-> output, message |-> message, error |-> error]

\* ReviewResult(status=, feedback=, score=): two str fields and an int
\* field constrained to 0..100; anything else raises ValidationError.
ReviewResultValid(status, feedback, score) ==
    IsStr(status) /\ IsStr(feedback) /\ score >= 0 /\ score <= 100

\* AgentMessage(sender=, receiver=, content=, iteration=): content is a str
AgentMessageValid(content) == IsStr(content)

AgentMessage(sender, receiver, content, iteration) ==
    [sender |-> sender, receiver |-> receiver, content |-> content,
     iteration |-> iteration]

-----------------------------------------------------------------------------
(* a2a_client.py: A2AClient.execute_task *)

\* httpx's response.raise_for_status(): anything but 2xx raises
\* HTTPStatusError, a subclass of httpx.HTTPError
IsSuccess(status_code) == status_code >= 200 /\ status_code <= 299

\* TaskStatus(**response.json()): json() raises on a body that is not JSON,
\* ** raises TypeError on a JSON value that is not an object, and pydantic
\* raises ValidationError on a missing or unknown state or a wrongly typed
\* field. A field that is absent or null is None.
ParseTaskStatus(body) ==
    IF body.json = "invalid"
    THEN [raised |-> TRUE, class |-> "Exception", desc |-> "JSONDecodeError"]
    ELSE IF body.json = "array"
    THEN [raised |-> TRUE, class |-> "Exception", desc |-> "TypeError"]
    ELSE IF ~body.well_typed \/ IsNone(body.state)
            \/ body.state[1] \notin TaskStateValues
    THEN [raised |-> TRUE, class |-> "Exception", desc |-> "ValidationError"]
    ELSE [raised |-> FALSE,
          value |-> TaskStatus(body.state[1], body.output, body.message,
                               body.error)]

\* the try block, lines 58-63
ExecuteTaskTry(post) ==
    IF post.kind # "response"
    THEN [raised |-> TRUE, class |-> post.class, desc |-> post.desc]
    ELSE IF ~IsSuccess(post.status_code)
    THEN [raised |-> TRUE, class |-> "HTTPError", desc |-> "HTTPStatusError"]
    ELSE ParseTaskStatus(post.body)

\* Mutant: the generic `except Exception` clause is missing
ExecuteTaskNoGenericExcept(post) ==
    LET t == ExecuteTaskTry(post) IN
    IF ~t.raised THEN t
    ELSE IF t.class = "HTTPError"
    THEN [raised |-> FALSE,
          value |-> TaskStatus(FAILED, None, Some("agent communication failed"),
                               Some("HTTP request failed: " \o t.desc))]
    ELSE t

\* the whole method: the try block and its two except clauses. An
\* exception class outside Exception (a BaseException) passes through.
ExecuteTask(post) ==
    LET t == ExecuteTaskTry(post) IN
    IF ~t.raised THEN t
    ELSE IF t.class = "HTTPError"
    THEN [raised |-> FALSE,
          value |-> TaskStatus(FAILED, None, Some("agent communication failed"),
                               Some("HTTP request failed: " \o t.desc))]
    ELSE IF t.class = "Exception"
    THEN [raised |-> FALSE,
          value |-> TaskStatus(FAILED, None,
                               Some("task execution error: " \o t.desc),
                               Some(t.desc))]
    ELSE t

-----------------------------------------------------------------------------
(* a2a_server.py: A2AServerBase, POST /a2a/tasks *)

\* Mutant: the output of the handler is left out of the body
ToJsonWithoutOutput(status) ==
    [json |-> "object", well_typed |-> TRUE, state |-> Some(status.state),
     output |-> None, message |-> status.message, error |-> status.error]

\* result.model_dump() sent as the JSON body: None becomes null, the state
\* its string value
ToJson(status) ==
    [json |-> "object", well_typed |-> TRUE, state |-> Some(status.state),
     output |-> status.output, message |-> status.message,
     error |-> status.error]

\* lines 72-77: the TaskStatus built in `except Exception as e`
ErrorStatus(desc) ==
    TaskStatus(FAILED, None, Some("task handling failed: " \o desc), Some(desc))

HttpResponse(status_code, body) == [status_code |-> status_code, body |-> body]

\* lines 69-77, given how the (last) invocation of the handler ended: a
\* TaskStatus is dumped, anything else has no model_dump (AttributeError
\* inside the try), an exception lands in `except Exception`
RespondTo(ending) ==
    IF ending.kind = "returns"
    THEN HttpResponse(200, ToJson(ending.value))
    ELSE IF ending.kind = "returns_other"
    THEN HttpResponse(200, ToJson(ErrorStatus("AttributeError")))
    ELSE HttpResponse(200, ToJson(ErrorStatus(ending.desc)))

\* line 65: `except RuntimeError` encloses the executor call of line 64, so
\* it catches what the handler raised on the worker thread as well as what
\* get_running_loop raised (nothing: handle_task is a coroutine, it has a
\* running loop)
CaughtAsRuntimeError(ending) ==
    ending.kind = "raises" /\ ending.class = "RuntimeError"

-----------------------------------------------------------------------------
(* orchestrator.py: Orchestrator.run_a2a_workflow *)

\* self.max_iterations
DefaultMaxIterations == 5

\* Orchestrator.__init__: of the attributes of the instance, the one a run
\* reads that is not a constant of the deployment
NewOrchestrator == [max_iterations |-> DefaultMaxIterations]

\* Mutant: a bound below one is raised to one attempt
ResolveMaxIterationsAtLeastOne(self, max_iterations_arg) ==
    IF IsNone(max_iterations_arg) THEN self.max_iterations
    ELSE IF max_iterations_arg[1] < 1 THEN 1
    ELSE max_iterations_arg[1]

\* lines 51-52: the local max_iterations
ResolveMaxIterations(self, max_iterations_arg) ==
    IF IsNone(max_iterations_arg) THEN self.max_iterations
    ELSE max_iterations_arg[1]

\* Mutant: the bound of the call is kept on the instance,
\* self.max_iterations = max_iterations
OrchestratorKeepsBound(self, w) ==
    [self EXCEPT !.max_iterations =
                     ResolveMaxIterations(self, w.max_iterations_arg)]

\* the instance after lines 51-64 of a run: no statement of
\* run_a2a_workflow assigns an attribute of self
OrchestratorAfterStart(self, w) == self

\* the instruction texts: the plain topic, and the f-string of lines 229-235
TopicText(topic) == [kind |-> "topic", text |-> topic]

\* int(video_duration) if video_duration else 'Not specified'
DurationText(video_duration) ==
    IF ~IsNone(video_duration) /\ video_duration[1] # 0
    THEN Some(video_duration[1] \div 10)
    ELSE None

\* Mutant: the next instruction names the rejection but not its reason
RejectionTextWithoutReason(feedback, topic, video_duration) ==
    [kind |-> "rejected", feedback |-> "", topic |-> topic,
     duration |-> DurationText(video_duration)]

RejectionText(feedback, topic, video_duration) ==
    [kind |-> "rejected", feedback |-> feedback, topic |-> topic,
     duration |-> DurationText(video_duration)]

\* lines 70-80
PlannerTaskInput(w) ==
    [topic |-> IF w.attempts = 1 THEN TopicText(w.user_topic)
               ELSE w.current_prompt,
     video_duration |-> w.video_duration,
     context |-> IF w.attempts > 1
                 THEN Some("Previous prompt was rejected by Reviewer. "
                           \o "Incorporate the feedback.")
                 ELSE None,
     feedback |-> IF w.attempts > 1 THEN Some(w.current_prompt) ELSE None]

\* Mutant: the reviewer is told the whole seconds of the duration
ReviewerTaskInputWholeSeconds(w, generated_prompt) ==
    [prompt |-> generated_prompt,
     expected_duration |-> DurationText(w.video_duration)]

\* lines 146-149
ReviewerTaskInput(w, generated_prompt) ==
    [prompt |-> generated_prompt, expected_duration |-> w.video_duration]

\* the conversation_log entries
ErrorEntry(iteration, agent, error) ==
    [iteration |-> iteration, agent |-> agent, action |-> "error",
     error |-> error]

\* Mutant: the generate entry is numbered from zero
GenerateEntryZeroBased(iteration, generated_prompt) ==
    [iteration |-> iteration - 1, agent |-> "PlannerAgent",
     action |-> "generate",
     message |-> AgentMessage("PlannerAgent", "ReviewerAgent",
                              generated_prompt, iteration - 1),
     output |-> generated_prompt]

GenerateEntry(iteration, generated_prompt) ==
    [iteration |-> iteration, agent |-> "PlannerAgent", action |-> "generate",
     message |-> AgentMessage("PlannerAgent", "ReviewerAgent",
                              generated_prompt, iteration),
     output |-> generated_prompt]

\* Mutant: the review entry carries the number of the attempt to come
ReviewEntryNextIteration(iteration, status, feedback, score) ==
    [iteration |-> iteration + 1, agent |-> "ReviewerAgent",
     action |-> "review",
     message |-> AgentMessage("ReviewerAgent", "PlannerAgent", feedback,
                              iteration + 1),
     output |-> [status |-> status, feedback |-> feedback, score |-> score]]

ReviewEntry(iteration, status, feedback, score) ==
    [iteration |-> iteration, agent |-> "ReviewerAgent", action |-> "review",
     message |-> AgentMessage("ReviewerAgent", "PlannerAgent", feedback,
                              iteration),
     output |-> [status |-> status, feedback |-> feedback, score |-> score]]

\* the f-strings of the "error" key
AgentError(who, detail) == [category |-> who, detail |-> detail]

\* Mutant: exhaustion is reported in the words of a reviewer failure
ExhaustedErrorAsReviewerError(max_iterations) ==
    [category |-> "Reviewer", detail |-> Some("max_iterations_reached")]

ExhaustedError(max_iterations) ==
    [category |-> "max_iterations_reached", max_iterations |-> max_iterations]

\* the dict every failing return statement builds
FailureOutcome(log, attempts, error) ==
    [success |-> FALSE, approved_prompt |-> None, youtube_metadata |-> None,
     conversation_log |-> log, iterations |-> attempts, final_score |-> 0,
     error |-> error]

\* Mutant: the score returned is that of the first review of the run
SuccessOutcomeFirstScore(w) ==
    [success |-> TRUE, approved_prompt |-> w.approved_prompt,
     youtube_metadata |-> w.youtube_metadata,
     conversation_log |-> w.conversation_log, iterations |-> w.attempts,
     final_score |-> w.conversation_log[2].output.score]

\* lines 267-274
SuccessOutcome(w) ==
    [success |-> TRUE, approved_prompt |-> w.approved_prompt,
     youtube_metadata |-> w.youtube_metadata,
     conversation_log |-> w.conversation_log, iterations |-> w.attempts,
     final_score |-> w.final_score]

\* str.lower() on the topics of the model
Lower(s) == IF s = "Rain" THEN "rain" ELSE IF s = "Snow" THEN "snow" ELSE s

\* lines 211-224
DefaultMetadata(user_topic) ==
    [title |-> "Healing " \o user_topic \o " - Relaxing ASMR Video",
     description |-> "Experience the calming atmosphere of " \o user_topic
                     \o ". Perfect for meditation, relaxation, and ASMR.",
     tags |-> <<"healing", "asmr", "meditation", "relaxation", Lower(user_topic)>>]

\* Mutant: the reviewer's client is not in the `async with` and stays open
ReturnLeavesReviewerOpen(w, log, outcome) ==
    [w EXCEPT !.pc = "done", !.conversation_log = log,
              !.planner_client = "closed",
              !.inflight = "none", !.outcome = Some(outcome)]

\* A return from inside the `async with` block, or falling out of it: both
\* clients' __aexit__ run (a2a_client.py lines 100-102) and the call ends.
Return(w, log, outcome) ==
    [w EXCEPT !.pc = "done", !.conversation_log = log,
              !.planner_client = "closed", !.reviewer_client = "closed",
              !.inflight = "none", !.outcome = Some(outcome)]

\* Mutant: the caller's max_iterations is ignored
StartRunIgnoresCallerBound(w) ==
    [w EXCEPT !.pc = "loop",
              !.max_iterations = DefaultMaxIterations,
              !.conversation_log = <<>>,
              !.current_prompt = TopicText(w.user_topic),
              !.attempts = 0,
              !.approved_prompt = None,
              !.youtube_metadata = None,
              !.final_score = 0,
              !.planner_client = "open",
              !.reviewer_client = "open"]

\* lines 51-64: the default bound, the locals, the two clients
StartRun(w) ==
    [w EXCEPT !.pc = "loop",
              !.max_iterations =
                  ResolveMaxIterations(orchestrator, w.max_iterations_arg),
              !.conversation_log = <<>>,
              !.current_prompt = TopicText(w.user_topic),
              !.attempts = 0,
              !.approved_prompt = None,
              !.youtube_metadata = None,
              !.final_score = 0,
              !.planner_client = "open",
              !.reviewer_client = "open"]

\* Mutant: the loop admits one attempt too many
LoopConditionOffByOne(w) == w.attempts <= w.max_iterations

\* line 65
LoopCondition(w) == w.attempts < w.max_iterations

\* Mutant: the reviewer is called together with the planner, on the
\* instruction instead of on the planner's answer
CallPlannerAndReviewer(w) ==
    LET w1 == [w EXCEPT !.attempts = w.attempts + 1] IN
    [w1 EXCEPT !.pc = "await_planner", !.inflight = "planner",
               !.calls = w.calls \o
                   << [agent |-> "reviewer", iteration |-> w1.attempts,
                       task |-> ReviewerTaskInput(w1, w1.generated_prompt),
                       result |-> None],
                      [agent |-> "planner", iteration |-> w1.attempts,
                       task |-> PlannerTaskInput(w1), result |-> None] >>]

\* lines 66-83: a new attempt, up to the await of the planner's answer
CallPlanner(w) ==
    LET w1 == [w EXCEPT !.attempts = w.attempts + 1] IN
    [w1 EXCEPT !.pc = "await_planner", !.inflight = "planner",
               !.calls = Append(w.calls, [agent |-> "planner",
                                           iteration |-> w1.attempts,
                                           task |-> PlannerTaskInput(w1),
                                           result |-> None])]

\* Mutant: an exhausted run hands out the content it generated last
FinalReturnKeepsLastContent(w) ==
    IF IsNone(w.approved_prompt)
    THEN Return(w, w.conversation_log,
                [FailureOutcome(w.conversation_log, w.attempts,
                                ExhaustedError(w.max_iterations))
                    EXCEPT !.approved_prompt = Some(w.generated_prompt)])
    ELSE Return(w, w.conversation_log, SuccessOutcome(w))

\* lines 255-274, after the `async with` block is left (the while condition
\* failed, or the break of line 226 ran): both clients are closed by then
FinalReturn(w) ==
    IF IsNone(w.approved_prompt)
    THEN Return(w, w.conversation_log,
                FailureOutcome(w.conversation_log, w.attempts,
                               ExhaustedError(w.max_iterations)))
    ELSE Return(w, w.conversation_log, SuccessOutcome(w))

\* Mutant: the step has no `except Exception`; the exception leaves
\* run_a2a_workflow
AbortOnExceptionPropagates(w, agent, who, desc) ==
    Return(w, w.conversation_log, [raised |-> desc])

\* the two `except Exception as e` blocks, lines 123-140 and 236-253
AbortOnException(w, agent, who, desc) ==
    LET log == Append(w.conversation_log,
                      ErrorEntry(w.attempts, agent, Some(desc))) IN
    Return(w, log, FailureOutcome(log, w.attempts, AgentError(who, Some(desc))))

\* Mutant: the error and the message of the result get an entry each
AbortOnStateLogsErrorAndMessage(w, agent, who, result) ==
    LET detail == OrElse(result.error, result.message)
        log == w.conversation_log
                   \o << ErrorEntry(w.attempts, agent, result.error),
                         ErrorEntry(w.attempts, agent, result.message) >>
    IN Return(w, log, FailureOutcome(log, w.attempts, AgentError(who, detail)))

\* lines 85-103 and 155-173: the result's state is not COMPLETED
AbortOnState(w, agent, who, result) ==
    LET detail == OrElse(result.error, result.message)
        log == Append(w.conversation_log, ErrorEntry(w.attempts, agent, detail))
    IN Return(w, log, FailureOutcome(log, w.attempts, AgentError(who, detail)))

\* Mutant: the generator's failure is logged and the attempt goes on to the
\* reviewer with an empty prompt
PlannerStateIgnored(result) == TRUE

\* line 85, negated
PlannerCompleted(result) == result.state = COMPLETED

\* Mutant: the reviewer's failure is read as a rejection
ReviewerStateIgnored(result) == TRUE

\* line 155, negated
ReviewerCompleted(result) == result.state = COMPLETED

\* the await returns: the call in flight has its answer
Answered(w, res) ==
    [w EXCEPT !.calls = [w.calls EXCEPT ![Len(w.calls)].result = Some(res)],
              !.inflight = "none"]

\* lines 83-153: the planner's answer `res` (what execute_task returned or
\* raised) is observed, and either the run aborts or the reviewer is called
OnPlannerResult(w0, res) ==
    LET w == Answered(w0, res) IN
    IF res.raised
    THEN AbortOnException(w, "PlannerAgent", "Planner", res.desc)
    ELSE IF ~PlannerCompleted(res.value)
    THEN AbortOnState(w, "PlannerAgent", "Planner", res.value)
    ELSE IF IsNone(res.value.output)
    THEN \* planner_result.output.get on None
         AbortOnException(w, "PlannerAgent", "Planner", "AttributeError")
    ELSE LET generated_prompt == Get(res.value.output[1], "prompt", "") IN
         IF ~AgentMessageValid(generated_prompt)
         THEN AbortOnException(w, "PlannerAgent", "Planner", "ValidationError")
         ELSE [w EXCEPT !.pc = "await_reviewer", !.inflight = "reviewer",
                        !.generated_prompt = generated_prompt,
                        !.conversation_log =
                            Append(w.conversation_log,
                                   GenerateEntry(w.attempts, generated_prompt)),
                        !.calls = Append(w.calls,
                            [agent |-> "reviewer", iteration |-> w.attempts,
                             task |-> ReviewerTaskInput(w, generated_prompt),
                             result |-> None])]

EmptyDict == <<>>

\* Mutant: any verdict that is not a rejection approves
IsApprovedUnlessRejected(status) == status # "REJECTED"

\* line 197
IsApproved(status) == status = "APPROVED"

\* Mutant: the content of the first attempt is kept as the approved one
ApprovedContentFirst(w) == w.conversation_log[1].output

\* line 198: approved_prompt = generated_prompt
ApprovedContent(w) == w.generated_prompt

\* lines 151-235: the reviewer's answer is observed: abort, approval (and
\* the metadata call), or rejection and the next instruction
OnReviewerResult(w0, res) ==
    LET w == Answered(w0, res) IN
    IF res.raised
    THEN AbortOnException(w, "ReviewerAgent", "Reviewer", res.desc)
    ELSE IF ~ReviewerCompleted(res.value)
    THEN AbortOnState(w, "ReviewerAgent", "Reviewer", res.value)
    ELSE LET review_output == IF IsNone(res.value.output) THEN EmptyDict
                              ELSE res.value.output[1]
             status == Get(review_output, "status", "REJECTED")
             feedback == Get(review_output, "feedback", "")
             score == Get(review_output, "score", 0)
         IN
         IF ~ReviewResultValid(status, feedback, score)
         THEN AbortOnException(w, "ReviewerAgent", "Reviewer", "ValidationError")
         ELSE LET w2 == [w EXCEPT !.conversation_log =
                             Append(w.conversation_log,
                                    ReviewEntry(w.attempts, status, feedback,
                                                score))]
              IN
              IF IsApproved(status)
              THEN [w2 EXCEPT !.pc = "await_metadata", !.inflight = "metadata",
                              !.approved_prompt = Some(ApprovedContent(w2)),
                              !.final_score = score]
              ELSE [w2 EXCEPT !.pc = "loop",
                              !.current_prompt =
                                  RejectionText(feedback, w.user_topic,
                                                w.video_duration)]

\* Mutant: a failure of the metadata call is not caught where it happens
\* and ends the run through the reviewer step's `except Exception`
OnMetadataResultAborts(w, meta) ==
    LET w2 == [w EXCEPT !.metadata_dict = Some(meta),
                        !.youtube_metadata =
                            IF meta.kind = "valid" THEN Some(meta.value)
                            ELSE None]
    IN IF meta.kind = "valid" THEN FinalReturn(w2)
       ELSE AbortOnException(w2, "ReviewerAgent", "Reviewer", "ValidationError")

\* lines 202-274: generate_youtube_metadata answered `meta` (a dict that is
\* valid metadata, a value that is not, or an exception); break; the clients
\* close and the approved outcome returns
OnMetadataResult(w, meta) ==
    LET w2 == [w EXCEPT !.metadata_dict = Some(meta),
                        !.youtube_metadata =
                            IF meta.kind = "valid" THEN Some(meta.value)
                            ELSE Some(DefaultMetadata(w.user_topic))]
    IN FinalReturn(w2)

-----------------------------------------------------------------------------
(* The inputs of the model *)

\* the largest max_iterations a caller passes explicitly
MaxCallerIterations == 3

Topics == {"Rain"}

\* video_duration in tenths of a second: absent, or 45.5 s
Durations == {None, Some(455)}

MaxIterationsArgs == {None} \cup {Some(n) : n \in -1..MaxCallerIterations}

\* what the POST of execute_task can meet
TransportError(desc) == [kind |-> "error", class |-> "HTTPError", desc |-> desc]

Response(status_code, body) ==
    [kind |-> "response", status_code |-> status_code, body |-> body]

JsonObject(state, output, message, error) ==
    [json |-> "object", well_typed |-> TRUE, state |-> state,
     output |-> output, message |-> message, error |-> error]

Completed(output) ==
    Response(200, JsonObject(Some(COMPLETED), output, Some("done"), None))

FailedPosts ==
    { TransportError("ConnectError"),
      TransportError(""),
      Response(500, [json |-> "invalid"]),
      Response(200, [json |-> "invalid"]),
      Response(200, JsonObject(Some(FAILED), None, Some("handler failed: boom"),
                               Some("boom"))),
      Response(200, JsonObject(Some(FAILED), None, Some("handler failed: "),
                               Some(""))),
      Response(200, JsonObject(Some("running"), None, None, None)) }

\* The remote agents answer from a repertoire. Every repertoire holds the
\* failures, the well-formed answers and the malformed ones that end a run;
\* the "all" repertoire adds the answers with missing keys, which let a run
\* go on. Runs with the default bound of five attempts meet the "core"
\* repertoire, runs with an explicit bound the "all" one.
CorePlannerPosts ==
    FailedPosts \cup
    { Completed(Some([prompt |-> "p1", topic |-> "Rain"])),
      Completed(Some([prompt |-> "p2", topic |-> "Rain"])),
      Completed(Some([prompt |-> NonStr, topic |-> "Rain"])),
      Completed(None) }

\* the answers two runs that share the instance meet: one that lets the run
\* go on and one that ends it, and for the reviewer one more that goes on
PairPlannerPosts ==
    { Completed(Some([prompt |-> "p1"])),
      Response(500, [json |-> "invalid"]) }

PairReviewerPosts ==
    { Completed(Some([status |-> "APPROVED", feedback |-> "ok", score |-> 85])),
      Completed(Some([status |-> "REJECTED", feedback |-> "needs more detail",
                      score |-> 40])),
      Completed(Some([status |-> "REJECTED", feedback |-> "too long",
                      score |-> 50])),
      TransportError("ConnectError") }

PlannerPosts(remote) ==
    IF remote = "core" THEN CorePlannerPosts
    ELSE IF remote = "pair" THEN PairPlannerPosts
    ELSE CorePlannerPosts \cup { Completed(Some([topic |-> "Rain"])) }

CoreReviewerPosts ==
    FailedPosts \cup
    { Completed(Some([status |-> "APPROVED", feedback |-> "ok", score |-> 85])),
      Completed(Some([status |-> "REJECTED", feedback |-> "needs more detail",
                      score |-> 40])),
      Completed(Some([status |-> "MAYBE", feedback |-> "too long",
                      score |-> 50])),
      Completed(Some([status |-> "REJECTED", feedback |-> "ok", score |-> 101])),
      Completed(Some([status |-> NonStr, feedback |-> "ok", score |-> 85])) }

ReviewerPosts(remote) ==
    IF remote = "core" THEN CoreReviewerPosts
    ELSE IF remote = "pair" THEN PairReviewerPosts
    ELSE CoreReviewerPosts \cup
         { Completed(Some([feedback |-> "too long", score |-> 50])),
           Completed(None) }

MetadataResults ==
    { [kind |-> "valid",
       value |-> [title |-> "Rain sounds", description |-> "Rain for sleep",
                  tags |-> <<"rain">>]],
      [kind |-> "invalid"],
      [kind |-> "raises"] }

-----------------------------------------------------------------------------
(* The workflow runs: one action per step between two awaits *)

Runs == {1}

NewRun(user_topic, video_duration, max_iterations_arg) ==
    [pc |-> "start", user_topic |-> user_topic,
     remote |-> IF IsNone(max_iterations_arg) THEN "core" ELSE "all",
     video_duration |-> video_duration,
     max_iterations_arg |-> max_iterations_arg,
     max_iterations |-> 0, conversation_log |-> <<>>,
     current_prompt |-> TopicText(user_topic), attempts |-> 0,
     approved_prompt |-> None, youtube_metadata |-> None, final_score |-> 0,
     metadata_dict |-> None, generated_prompt |-> "", planner_client |-> "unborn",
     reviewer_client |-> "unborn", inflight |-> "none", calls |-> <<>>,
     outcome |-> None]

InitWorkflow ==
    wf \in [Runs -> {NewRun(t, d, m) : t \in Topics, d \in Durations,
                                       m \in MaxIterationsArgs}]

\* Two calls of run_a2a_workflow on the one instance of main.py, as two
\* requests to /v1/create_shorts make them: the first with a topic, a
\* duration and a bound of its own, the second with another topic and the
\* bound of the instance.
PairOfRuns == {1, 2}

PairRun(user_topic, video_duration, max_iterations_arg) ==
    [NewRun(user_topic, video_duration, max_iterations_arg)
        EXCEPT !.remote = "pair"]

PairOfCalls ==
    /\ wf \in [PairOfRuns -> {PairRun("Rain", Some(455), Some(n)) :
                                  n \in 1..MaxCallerIterations}
                             \cup {PairRun("Snow", None, None)}]
    /\ wf[1].user_topic = "Rain"
    /\ wf[2].user_topic = "Snow"

Start(r) ==
    /\ wf[r].pc = "start"
    /\ wf' = [wf EXCEPT ![r] = StartRun(wf[r])]
    /\ orchestrator' = OrchestratorAfterStart(orchestrator, wf[r])
    /\ UNCHANGED <<task_handler, req>>

NextAttempt(r) ==
    /\ wf[r].pc = "loop"
    /\ LoopCondition(wf[r])
    /\ wf' = [wf EXCEPT ![r] = CallPlanner(wf[r])]
    /\ UNCHANGED <<orchestrator, task_handler, req>>

Exhausted(r) ==
    /\ wf[r].pc = "loop"
    /\ ~LoopCondition(wf[r])
    /\ wf' = [wf EXCEPT ![r] = FinalReturn(wf[r])]
    /\ UNCHANGED <<orchestrator, task_handler, req>>

PlannerAnswers(r) ==
    /\ wf[r].pc = "await_planner"
    /\ \E post \in PlannerPosts(wf[r].remote) :
          wf' = [wf EXCEPT ![r] = OnPlannerResult(wf[r], ExecuteTask(post))]
    /\ UNCHANGED <<orchestrator, task_handler, req>>

ReviewerAnswers(r) ==
    /\ wf[r].pc = "await_reviewer"
    /\ \E post \in ReviewerPosts(wf[r].remote) :
          wf' = [wf EXCEPT ![r] = OnReviewerResult(wf[r], ExecuteTask(post))]
    /\ UNCHANGED <<orchestrator, task_handler, req>>

MetadataAnswers(r) ==
    /\ wf[r].pc = "await_metadata"
    /\ \E meta \in MetadataResults :
          wf' = [wf EXCEPT ![r] = OnMetadataResult(wf[r], meta)]
    /\ UNCHANGED <<orchestrator, task_handler, req>>

-----------------------------------------------------------------------------
(* One agent server and its clients: a POST /a2a/tasks from execute_task to
   handle_task and back *)

\* the number of requests a server has in flight together
NumRequests == 2

Reqs == 1..NumRequests

\* how an invocation of the bound handler can end: it returns a TaskStatus,
\* returns something else, or raises an Exception with a description
HandlerEndings ==
    { [kind |-> "returns",
       value |-> TaskStatus(COMPLETED, Some([prompt |-> "p1"]), Some("done"),
                            None)],
      [kind |-> "returns",
       value |-> TaskStatus(COMPLETED, None, None, None)],
      [kind |-> "returns",
       value |-> TaskStatus(FAILED, None, Some("no topic"), Some("no topic"))],
      [kind |-> "returns",
       value |-> TaskStatus("running", None, Some("working"), None)],
      [kind |-> "returns_other"],
      [kind |-> "raises", class |-> "RuntimeError", desc |-> "overloaded"],
      [kind |-> "raises", class |-> "ValueError", desc |-> "bad input"],
      [kind |-> "raises", class |-> "TimeoutError", desc |-> ""] }

\* the POST does not reach a server: httpx.ConnectError is an
\* httpx.HTTPError, httpx.InvalidURL is not
ConnectErrors ==
    { TransportError("ConnectError"),
      [kind |-> "error", class |-> "Exception", desc |-> "InvalidURL"] }

\* the answer does not arrive in time: httpx.ReadTimeout, an httpx.HTTPError
\* whose str() is empty
ReadTimeout == TransportError("")

\* answers of something that is not an A2AServerBase
ForeignPosts ==
    { Response(500, [json |-> "invalid"]),
      Response(404, JsonObject(Some(FAILED), None, None, Some("not found"))),
      Response(200, [json |-> "invalid"]),
      Response(200, [json |-> "array"]),
      Response(200, JsonObject(None, None, None, None)),
      Response(200, JsonObject(Some("bogus"), None, None, None)),
      Response(200, [JsonObject(Some(COMPLETED), None, None, None)
                         EXCEPT !.well_typed = FALSE]),
      Response(200, JsonObject(Some(COMPLETED), None, None, None)),
      Response(200, JsonObject(Some(FAILED), None, Some("failed"), None)) }

-----------------------------------------------------------------------------
(* The four agent servers: the handler each binds to A2AServerBase and the
   decision logic behind it *)

AgentHandlers ==
    {"handle_planner_task", "handle_reviewer_task", "handle_producer_task",
     "handle_uploader_task"}

\* the ids of the skills on the AgentCard each create_server passes
CardSkills(handler) ==
    IF handler = "handle_planner_task" THEN {"plan"}
    ELSE IF handler = "handle_reviewer_task" THEN {"review"}
    ELSE IF handler = "handle_producer_task" THEN {"produce"}
    ELSE {"upload"}

\* a handler's return statement, with what its decision logic was asked and
\* did (None when the handler returned before calling it)
Returns(status, logic) ==
    [kind |-> "returns", value |-> status, logic |-> logic]

Called(input, outcome) == Some([input |-> input, outcome |-> outcome])

\* BaseAgent._generate_content for the planner: a text, or the Exception it
\* wraps every failure in
PlannerGenerations ==
    { [kind |-> "returns", text |-> "storyboard"],
      [kind |-> "returns", text |-> ""],
      [kind |-> "raises", desc |-> "PlannerAgent content generation failed: 503"] }

\* planner_server.py lines 30-67; PlannerAgent.process lets the exception
\* of _generate_content through
HandlePlannerTask(task, generation) ==
    LET task_input == task.input
        topic == Get(task_input, "topic", "")
        video_duration == Get(task_input, "video_duration", None)
        feedback == Get(task_input, "feedback", None)
    IN
    IF topic = ""
    THEN Returns(TaskStatus(FAILED, None, Some("'topic' field is required"),
                            Some("no topic given")), None)
    ELSE LET logic == Called(IF Truthy(feedback) THEN feedback[1] ELSE topic,
                             generation) IN
         IF generation.kind = "raises"
         THEN Returns(TaskStatus(FAILED, None,
                                 Some("prompt generation failed: "
                                      \o generation.desc),
                                 Some(generation.desc)), logic)
         ELSE Returns(TaskStatus(COMPLETED,
                                 Some([prompt |-> generation.text,
                                       topic |-> topic,
                                       video_duration |-> video_duration]),
                                 Some("prompt generated"), None), logic)

\* str.upper() on the statuses of the model
Upper(s) ==
    IF s = "approved" THEN "APPROVED"
    ELSE IF s = "rejected" THEN "REJECTED"
    ELSE IF s = "maybe" THEN "MAYBE"
    ELSE s

\* BaseAgent._generate_content for the reviewer: the text of a JSON object,
\* a text that is not JSON, or the Exception
ReviewerGenerations ==
    { [kind |-> "json",
       dict |-> [status |-> "approved", feedback |-> "ok", score |-> 85]],
      [kind |-> "json",
       dict |-> [status |-> "REJECTED", feedback |-> "too long", score |-> 40]],
      [kind |-> "json",
       dict |-> [status |-> "maybe", feedback |-> "unsure", score |-> 50]],
      [kind |-> "json",
       dict |-> [status |-> "APPROVED", feedback |-> "ok", score |-> 101]],
      [kind |-> "json", dict |-> [feedback |-> "no status", score |-> 10]],
      [kind |-> "json",
       dict |-> [status |-> NonStr, feedback |-> "ok", score |-> 85]],
      [kind |-> "text"],
      [kind |-> "raises", desc |-> "ReviewerAgent content generation failed: 503"] }

ReviewResult(status, feedback, score) ==
    [status |-> status, feedback |-> feedback, score |-> score]

\* reviewer.py lines 134-173: the try block of ReviewerAgent.evaluate and
\* its `except Exception`
EvaluateTry(generation) ==
    IF generation.kind = "raises"
    THEN ReviewResult("REJECTED",
                      "Reviewer evaluation error: " \o generation.desc, 0)
    ELSE LET result_dict ==
                 IF generation.kind = "text"
                 THEN [status |-> "REJECTED", feedback |-> "JSON parse failed",
                       score |-> 0]
                 ELSE generation.dict
             status == Upper(Get(result_dict, "status", "REJECTED"))
             feedback == Get(result_dict, "feedback", "No feedback provided")
             score == Get(result_dict, "score", 0)
         IN
         IF ~IsStr(Get(result_dict, "status", "REJECTED"))
         THEN \* .upper() on a value that is no str
              ReviewResult("REJECTED",
                           "Reviewer evaluation error: AttributeError", 0)
         ELSE IF ~ReviewResultValid(status, feedback, score)
         THEN ReviewResult("REJECTED",
                           "Reviewer evaluation error: ValidationError", 0)
         ELSE IF status \notin {"APPROVED", "REJECTED"}
         THEN ReviewResult("REJECTED", "Invalid status 'REJECTED'. " \o feedback,
                           score)
         ELSE ReviewResult(status, feedback, score)

\* an expected_duration, in tenths of a second, that int() cannot convert:
\* float("nan") or float("inf")
NotFinite == -1

\* reviewer.py lines 115-173, ReviewerAgent.evaluate: int(expected_duration)
\* of line 117 stands before the try block
Evaluate(expected_duration, generation) ==
    IF ~IsNone(expected_duration) /\ expected_duration[1] # 0
       /\ expected_duration[1] = NotFinite
    THEN [raised |-> TRUE, class |-> "Exception", desc |-> "ValueError"]
    ELSE [raised |-> FALSE, value |-> EvaluateTry(generation)]

\* reviewer_server.py lines 45-62: what the handler returns after evaluate
AfterEvaluate(prompt, evaluation, generation) ==
    IF evaluation.raised
    THEN Returns(TaskStatus(FAILED, None,
                            Some("prompt review failed: " \o evaluation.desc),
                            Some(evaluation.desc)),
                 Called(prompt, [kind |-> "raises_before_generation",
                                 desc |-> evaluation.desc]))
    ELSE Returns(TaskStatus(COMPLETED,
                            Some([status |-> evaluation.value.status,
                                  feedback |-> evaluation.value.feedback,
                                  score |-> evaluation.value.score]),
                            Some("review done: " \o evaluation.value.status),
                            None),
                 Called(prompt, generation))

\* Mutant: the prompt is handed to the reviewer without the check of line 36
HandleReviewerTaskAnyPrompt(task, generation) ==
    AfterEvaluate(Get(task.input, "prompt", ""),
                  Evaluate(Get(task.input, "expected_duration", None),
                           generation),
                  generation)

\* reviewer_server.py lines 30-62
HandleReviewerTask(task, generation) ==
    LET task_input == task.input
        prompt == Get(task_input, "prompt", "")
        expected_duration == Get(task_input, "expected_duration", None)
    IN
    IF prompt = ""
    THEN Returns(TaskStatus(FAILED, None, Some("'prompt' field is required"),
                            Some("no prompt given")), None)
    ELSE AfterEvaluate(prompt, Evaluate(expected_duration, generation),
                       generation)

\* generate_veo_clip and make_seamless_loop: the path of the looped video,
\* or the exception of either
ProducerRuns ==
    { [kind |-> "returns", original_video_path |-> "output/veo.mp4",
       video_path |-> "output/loop.mp4"],
      [kind |-> "raises", desc |-> "Veo generation failed"],
      [kind |-> "raises", desc |-> ""] }

\* Mutant: the producer answers that the video is still being generated
HandleProducerTaskStillRunning(task, run) ==
    Returns(TaskStatus("running", None, Some("video generation started"), None),
            Called(Get(task.input, "prompt", ""), run))

\* producer_server.py lines 24-71
HandleProducerTask(task, run) ==
    LET task_input == task.input
        prompt == Get(task_input, "prompt", "")
    IN
    IF prompt = ""
    THEN Returns(TaskStatus(FAILED, None, Some("'prompt' field is required"),
                            Some("no prompt given")), None)
    ELSE IF run.kind = "raises"
    THEN Returns(TaskStatus(FAILED, None,
                            Some("video generation failed: " \o run.desc),
                            Some(run.desc)), Called(prompt, run))
    ELSE Returns(TaskStatus(COMPLETED,
                            Some([video_path |-> run.video_path,
                                  original_video_path |->
                                      run.original_video_path,
                                  prompt |-> prompt]),
                            Some("video generated: " \o run.video_path), None),
                 Called(prompt, run))

\* UploaderAgent.process: its result dict, or an exception
Uploads ==
    { [kind |-> "returns",
       result |-> [success |-> TRUE, youtube_url |-> Some("https://youtu.be/x"),
                   message |-> Some("uploaded")]],
      [kind |-> "returns",
       result |-> [success |-> FALSE, message |-> Some("quota exceeded")]],
      [kind |-> "returns", result |-> [success |-> FALSE]],
      [kind |-> "raises", desc |-> "credentials not found"] }

\* uploader_server.py lines 30-85
HandleUploaderTask(task, upload) ==
    LET task_input == task.input
        video_path == Get(task_input, "video_path", "")
        youtube_metadata == Get(task_input, "youtube_metadata", None)
    IN
    IF video_path = ""
    THEN Returns(TaskStatus(FAILED, None, Some("'video_path' field is required"),
                            Some("no video_path given")), None)
    ELSE IF ~IsNone(youtube_metadata) /\ ~youtube_metadata[1].valid
    THEN Returns(TaskStatus(FAILED, None,
                            Some("YouTube upload failed: ValidationError"),
                            Some("ValidationError")), None)
    ELSE IF upload.kind = "raises"
    THEN Returns(TaskStatus(FAILED, None,
                            Some("YouTube upload failed: " \o upload.desc),
                            Some(upload.desc)), Called(video_path, upload))
    ELSE IF Get(upload.result, "success", FALSE)
    THEN Returns(TaskStatus(COMPLETED,
                            Some([youtube_url |->
                                      Get(upload.result, "youtube_url", None),
                                  video_path |-> video_path,
                                  message |->
                                      Get(upload.result, "message", None)]),
                            Get(upload.result, "message",
                                Some("YouTube upload done")), None),
                 Called(video_path, upload))
    ELSE Returns(TaskStatus(FAILED, None,
                            Get(upload.result, "message",
                                Some("YouTube upload failed")),
                            Get(upload.result, "message", Some("upload failed"))),
                 Called(video_path, upload))

\* how an invocation of an agent's handler on `task` can end
AgentEndings(handler, task) ==
    IF handler = "handle_planner_task"
    THEN {HandlePlannerTask(task, g) : g \in PlannerGenerations}
    ELSE IF handler = "handle_reviewer_task"
    THEN {HandleReviewerTask(task, g) : g \in ReviewerGenerations}
    ELSE IF handler = "handle_producer_task"
    THEN {HandleProducerTask(task, p) : p \in ProducerRuns}
    ELSE {HandleUploaderTask(task, u) : u \in Uploads}

\* inspect.iscoroutinefunction(self.task_handler): handle_producer_task is
\* the one handler defined with `def`
IsCoroutineFunction(handler) ==
    handler \notin {"sync", "handle_producer_task"}

NewRequest ==
    [pc |-> "new", task |-> None, invocations |-> <<>>, response |-> None,
     post |-> None, client |-> None]

\* the endings of the handler bound to the server, for the task of request rq
Endings(rq) ==
    IF task_handler \in AgentHandlers
    THEN AgentEndings(task_handler, rq.task[1])
    ELSE HandlerEndings

InitServer ==
    /\ task_handler \in {"sync", "async"}
    /\ req = [q \in Reqs |-> NewRequest]

\* The event loop runs one coroutine step at a time: while a handler runs
\* directly on the loop's thread nothing else of the server runs.
LoopFree == \A q \in DOMAIN req : req[q].pc # "on_loop"

Invoke(rq, thread, pc) ==
    [rq EXCEPT !.pc = pc,
               !.invocations = Append(rq.invocations,
                                      [thread |-> thread, ending |-> None])]

Ended(rq, ending) ==
    [rq EXCEPT !.invocations =
        [rq.invocations EXCEPT ![Len(rq.invocations)].ending = Some(ending)]]

Responded(rq, ending) ==
    [Ended(rq, ending) EXCEPT !.pc = "responded",
                              !.response = Some(RespondTo(ending))]

\* execute_task ends: `post` is what its POST met
ClientDone(rq, post) ==
    [rq EXCEPT !.pc = "done", !.post = Some(post),
               !.client = Some(ExecuteTask(post))]

\* a2a_client.py line 58: the client sends the task
ClientPosts(q) ==
    /\ req[q].pc = "new"
    /\ req' = [req EXCEPT ![q].pc = "sent"]
    /\ UNCHANGED <<wf, orchestrator, task_handler>>

\* the connection fails: execute_task ends with what its except clauses
\* make of the error
ConnectFails(q) ==
    /\ req[q].pc = "sent"
    /\ \E e \in ConnectErrors :
          req' = [req EXCEPT ![q] = ClientDone(req[q], e)]
    /\ UNCHANGED <<wf, orchestrator, task_handler>>

\* the server's answer comes too late for the client's timeout
ReadTimesOut(q) ==
    /\ req[q].pc = "responded"
    /\ req' = [req EXCEPT ![q] = ClientDone(req[q], ReadTimeout)]
    /\ UNCHANGED <<wf, orchestrator, task_handler>>

\* the URL is answered by something else than handle_task
ForeignAnswers(q) ==
    /\ req[q].pc = "sent"
    /\ \E post \in ForeignPosts :
          req' = [req EXCEPT ![q] = ClientDone(req[q], post)]
    /\ UNCHANGED <<wf, orchestrator, task_handler>>

\* a2a_server.py lines 51-55: handle_task starts; an async handler is awaited
DispatchAsync(q) ==
    /\ req[q].pc = "sent"
    /\ LoopFree
    /\ IsCoroutineFunction(task_handler)
    /\ req' = [req EXCEPT ![q] = Invoke(req[q], "loop_coroutine", "awaiting")]
    /\ UNCHANGED <<wf, orchestrator, task_handler>>

\* lines 56-64: a sync handler is handed to a fresh ThreadPoolExecutor
DispatchSync(q) ==
    /\ req[q].pc = "sent"
    /\ LoopFree
    /\ ~IsCoroutineFunction(task_handler)
    /\ req' = [req EXCEPT ![q] = Invoke(req[q], "worker", "on_worker")]
    /\ UNCHANGED <<wf, orchestrator, task_handler>>

\* lines 55, 69-77: the awaited handler ended
AsyncHandlerEnds(q) ==
    /\ req[q].pc = "awaiting"
    /\ LoopFree
    /\ \E ending \in Endings(req[q]) :
          req' = [req EXCEPT ![q] = Responded(req[q], ending)]
    /\ UNCHANGED <<wf, orchestrator, task_handler>>

\* lines 64-77: the handler ended on the worker thread. A RuntimeError is
\* caught by line 65 and line 67 calls the handler again, on the loop.
WorkerHandlerEnds(q) ==
    /\ req[q].pc = "on_worker"
    /\ LoopFree
    /\ \E ending \in Endings(req[q]) :
          req' = [req EXCEPT ![q] =
                     IF CaughtAsRuntimeError(ending)
                     THEN Invoke(Ended(req[q], ending), "loop", "on_loop")
                     ELSE Responded(req[q], ending)]
    /\ UNCHANGED <<wf, orchestrator, task_handler>>

\* lines 67-77: the direct call ended
DirectHandlerEnds(q) ==
    /\ req[q].pc = "on_loop"
    /\ \E ending \in Endings(req[q]) :
          req' = [req EXCEPT ![q] = Responded(req[q], ending)]
    /\ UNCHANGED <<wf, orchestrator, task_handler>>

\* a2a_client.py lines 58-76: the answer reaches execute_task
ClientReceives(q) ==
    /\ req[q].pc = "responded"
    /\ LET resp == req[q].response[1] IN
       req' = [req EXCEPT ![q] =
                  ClientDone(req[q], Response(resp.status_code, resp.body))]
    /\ UNCHANGED <<wf, orchestrator, task_handler>>

NextA2A ==
    \/ \E q \in DOMAIN req : ClientPosts(q)
    \/ \E q \in DOMAIN req : ConnectFails(q)
    \/ \E q \in DOMAIN req : ReadTimesOut(q)
    \/ \E q \in DOMAIN req : ForeignAnswers(q)
    \/ \E q \in DOMAIN req : DispatchAsync(q)
    \/ \E q \in DOMAIN req : DispatchSync(q)
    \/ \E q \in DOMAIN req : AsyncHandlerEnds(q)
    \/ \E q \in DOMAIN req : WorkerHandlerEnds(q)
    \/ \E q \in DOMAIN req : DirectHandlerEnds(q)
    \/ \E q \in DOMAIN req : ClientReceives(q)

InitA2A == InitServer /\ wf = <<>> /\ orchestrator = NewOrchestrator

SpecA2A == InitA2A /\ [][NextA2A]_vars

-----------------------------------------------------------------------------
(* One of the four agent servers, its handler bound, answering one task *)

\* skills a client may name: those of the four cards and one of no card
Skills == {"plan", "review", "produce", "upload", "translate"}

\* task.input as the orchestrator and other clients build it
TaskInputs ==
    { EmptyDict,
      [topic |-> "Rain"],
      [topic |-> "Rain", video_duration |-> Some(300),
       feedback |-> Some("too long")],
      [prompt |-> "p1"],
      [prompt |-> "p1", expected_duration |-> Some(455)],
      [prompt |-> "p1", expected_duration |-> Some(NotFinite)],
      [video_path |-> "output/loop.mp4"],
      [video_path |-> "output/loop.mp4",
       youtube_metadata |-> Some([valid |-> TRUE])],
      [video_path |-> "output/loop.mp4",
       youtube_metadata |-> Some([valid |-> FALSE])] }

AgentTasks == [skill : Skills, input : TaskInputs]

InitAgents ==
    /\ task_handler \in AgentHandlers
    /\ \E task \in AgentTasks :
          req = [q \in {1} |-> [NewRequest EXCEPT !.task = Some(task)]]
    /\ wf = <<>>
    /\ orchestrator = NewOrchestrator

\* the concrete handlers catch every Exception themselves, so the direct
\* call of line 67 is never reached
NextAgents ==
    \/ \E q \in DOMAIN req : ClientPosts(q)
    \/ \E q \in DOMAIN req : ConnectFails(q)
    \/ \E q \in DOMAIN req : ReadTimesOut(q)
    \/ \E q \in DOMAIN req : DispatchAsync(q)
    \/ \E q \in DOMAIN req : DispatchSync(q)
    \/ \E q \in DOMAIN req : AsyncHandlerEnds(q)
    \/ \E q \in DOMAIN req : WorkerHandlerEnds(q)
    \/ \E q \in DOMAIN req : ClientReceives(q)

SpecAgents == InitAgents /\ [][NextAgents]_vars

InitInstance == orchestrator = NewOrchestrator

Init ==
    InitWorkflow /\ InitInstance /\ task_handler = "unbound" /\ req = <<>>

Next ==
    \/ \E r \in DOMAIN wf : Start(r)
    \/ \E r \in DOMAIN wf : NextAttempt(r)
    \/ \E r \in DOMAIN wf : Exhausted(r)
    \/ \E r \in DOMAIN wf : PlannerAnswers(r)
    \/ \E r \in DOMAIN wf : ReviewerAnswers(r)
    \/ \E r \in DOMAIN wf : MetadataAnswers(r)

Spec == Init /\ [][Next]_vars

FairSpec == Spec /\ WF_vars(Next)

\* the interleavings of two runs on one instance
InitPairOfRuns ==
    PairOfCalls /\ InitInstance /\ task_handler = "unbound" /\ req = <<>>

SpecPairOfRuns == InitPairOfRuns /\ [][Next]_vars

-----------------------------------------------------------------------------
(* A run whose two remote calls are answered by the planner server and the
   reviewer server *)

\* the instruction as the string that travels in the task's JSON
Render(text) ==
    IF text.kind = "topic" THEN text.text
    ELSE "Previous storyboard was REJECTED by Reviewer. REJECTION REASON: "
         \o text.feedback \o " ORIGINAL REQUEST: " \o text.topic

\* the Task of lines 70-80 as the planner server receives it
PlannerServerTask(w) ==
    LET task_input == w.calls[Len(w.calls)].task IN
    [skill |-> "plan",
     input |-> [topic |-> Render(task_input.topic),
                video_duration |-> task_input.video_duration,
                feedback |-> IF IsNone(task_input.feedback) THEN None
                             ELSE Some(Render(task_input.feedback[1]))]]

\* the Task of lines 144-150 as the reviewer server receives it
ReviewerServerTask(w) ==
    [skill |-> "review", input |-> w.calls[Len(w.calls)].task]

\* what the POST meets when handle_task answers with the handler's ending
AgentServerPost(ending) ==
    LET resp == RespondTo(ending) IN Response(resp.status_code, resp.body)

\* the planner server's answers, and the answer of a generator that
\* completes without a "prompt" in its output
PlannerServerPosts(w) ==
    {AgentServerPost(e) :
         e \in AgentEndings("handle_planner_task", PlannerServerTask(w))}
    \cup {Completed(Some([topic |-> w.user_topic]))}

ReviewerServerPosts(w) ==
    {AgentServerPost(e) :
         e \in AgentEndings("handle_reviewer_task", ReviewerServerTask(w))}

PlannerServerAnswers(r) ==
    /\ wf[r].pc = "await_planner"
    /\ \E post \in PlannerServerPosts(wf[r]) :
          wf' = [wf EXCEPT ![r] = OnPlannerResult(wf[r], ExecuteTask(post))]
    /\ UNCHANGED <<orchestrator, task_handler, req>>

ReviewerServerAnswers(r) ==
    /\ wf[r].pc = "await_reviewer"
    /\ \E post \in ReviewerServerPosts(wf[r]) :
          wf' = [wf EXCEPT ![r] = OnReviewerResult(wf[r], ExecuteTask(post))]
    /\ UNCHANGED <<orchestrator, task_handler, req>>

InitNegotiation ==
    /\ wf \in [Runs -> {NewRun(t, d, Some(m)) :
                            t \in Topics, d \in Durations,
                            m \in 1..MaxCallerIterations}]
    /\ orchestrator = NewOrchestrator
    /\ task_handler = "unbound"
    /\ req = <<>>

NextNegotiation ==
    \/ \E r \in DOMAIN wf : Start(r)
    \/ \E r \in DOMAIN wf : NextAttempt(r)
    \/ \E r \in DOMAIN wf : Exhausted(r)
    \/ \E r \in DOMAIN wf : PlannerServerAnswers(r)
    \/ \E r \in DOMAIN wf : ReviewerServerAnswers(r)
    \/ \E r \in DOMAIN wf : MetadataAnswers(r)

SpecNegotiation == InitNegotiation /\ [][NextNegotiation]_vars

-----------------------------------------------------------------------------
(* main.py: POST /v1/create_shorts *)

HTTPException(status_code, detail) ==
    [raised |-> TRUE, class |-> "Exception", status_code |-> status_code,
     detail |-> detail]

\* lines 1221-1236: the two health checks and, when one fails, the answer of
\* ensure_agent_servers_running; the exception raised, if any
HealthGate(planner_healthy, reviewer_healthy, agent_status) ==
    IF planner_healthy /\ reviewer_healthy THEN None
    ELSE IF ~Get(agent_status, "planner", FALSE)
    THEN Some(HTTPException(503, "PlannerAgent server cannot be started"))
    ELSE IF ~Get(agent_status, "reviewer", FALSE)
    THEN Some(HTTPException(503, "ReviewerAgent server cannot be started"))
    ELSE None

\* lines 1321-1325: `except Exception as e` around the whole body. An
\* HTTPException is an Exception, so the one of the health gate is caught
\* too and raised again with status 500.
CreateShortsExcept(exc) == HTTPException(500, "server error")

\* the HTTP answer FastAPI gives for an HTTPException
ErrorResponse(exc) ==
    [status_code |-> exc.status_code, body |-> [detail |-> exc.detail]]

\* lines 1251-1271: the messages broadcast for the entries of the log
Broadcasts(log) ==
    LET told == SelectSeq(log, LAMBDA e : e.action \in {"generate", "review"})
    IN [i \in 1..Len(told) |->
           [type |-> "agent_message", agent |-> told[i].agent,
            action |-> told[i].action]]

\* lines 1304-1313: the arguments of process_video_pipeline_with_updates
PipelineTask(approved_prompt, rq, youtube_metadata) ==
    [approved_prompt |-> approved_prompt,
     video_duration |-> rq.video_duration,
     upload_to_youtube |-> rq.upload_to_youtube,
     youtube_title |-> IF Truthy(rq.youtube_title) THEN rq.youtube_title
                       ELSE IF IsNone(youtube_metadata) THEN None
                       ELSE Some(youtube_metadata[1].title),
     youtube_metadata |-> youtube_metadata]

\* Mutant: the pipeline is scheduled before the outcome is looked at, with
\* the content generated first
OnWorkflowResultSchedulesFirst(rq, workflow_result) ==
    LET log == workflow_result.conversation_log
        task == PipelineTask(IF Len(log) > 0 /\ log[1].action = "generate"
                             THEN Some(log[1].output) ELSE None,
                             rq, workflow_result.youtube_metadata)
    IN [rq EXCEPT !.pc = "responded",
                  !.broadcast = Broadcasts(log),
                  !.background_tasks = Append(rq.background_tasks, task),
                  !.response =
                      Some([status_code |-> 200,
                            body |-> [status |-> IF workflow_result.success
                                                 THEN "processing"
                                                 ELSE "failed",
                                      approved_prompt |->
                                          workflow_result.approved_prompt,
                                      conversation_log |-> log]])]

\* lines 1251-1319: run_a2a_workflow returned workflow_result
OnWorkflowResult(rq, workflow_result) ==
    LET log == workflow_result.conversation_log IN
    IF ~workflow_result.success
    THEN [rq EXCEPT !.pc = "responded",
                    !.broadcast = Broadcasts(log),
                    !.response =
                        Some([status_code |-> 200,
                              body |-> [status |-> "failed",
                                        approved_prompt |-> None,
                                        conversation_log |-> log]])]
    ELSE [rq EXCEPT !.pc = "responded",
                    !.broadcast = Broadcasts(log),
                    !.background_tasks =
                        Append(rq.background_tasks,
                               PipelineTask(workflow_result.approved_prompt, rq,
                                            workflow_result.youtube_metadata)),
                    !.response =
                        Some([status_code |-> 200,
                              body |-> [status |-> "processing",
                                        approved_prompt |->
                                            workflow_result.approved_prompt,
                                        conversation_log |-> log]])]

\* the answers of ensure_agent_servers_running about the two agents
AgentStatuses == [{"planner", "reviewer"} -> BOOLEAN]

\* CreateShortsRequest.video_duration when the request names none: 30.0 s,
\* in tenths of a second
DefaultVideoDuration == 300

NewCreateShorts(topic, video_duration) ==
    [pc |-> "new", topic |-> topic, video_duration |-> video_duration,
     upload_to_youtube |-> FALSE, youtube_title |-> None,
     planner_healthy |-> None, reviewer_healthy |-> None,
     agent_status |-> None, broadcast |-> <<>>, background_tasks |-> <<>>,
     response |-> None]

InitCreateShorts ==
    /\ req \in [{1} -> {NewCreateShorts(t, Some(DefaultVideoDuration)) :
                            t \in Topics}]
    /\ wf = <<>>
    /\ orchestrator = NewOrchestrator
    /\ task_handler = "unbound"

\* lines 1221-1226: the two health checks
ChecksHealth(q) ==
    /\ req[q].pc = "new"
    /\ \E planner_healthy \in BOOLEAN, reviewer_healthy \in BOOLEAN :
          req' = [req EXCEPT ![q].planner_healthy = Some(planner_healthy),
                             ![q].reviewer_healthy = Some(reviewer_healthy),
                             ![q].pc = IF planner_healthy /\ reviewer_healthy
                                       THEN "call_workflow" ELSE "ensuring"]
    /\ UNCHANGED <<wf, orchestrator, task_handler>>

\* lines 1227-1236 and 1321-1325: ensure_agent_servers_running answered
EnsureAnswers(q) ==
    /\ req[q].pc = "ensuring"
    /\ \E agent_status \in AgentStatuses :
          LET gate == HealthGate(req[q].planner_healthy[1],
                                 req[q].reviewer_healthy[1], agent_status)
              rq == [req[q] EXCEPT !.agent_status = Some(agent_status)]
          IN req' = [req EXCEPT ![q] =
                        IF IsNone(gate)
                        THEN [rq EXCEPT !.pc = "call_workflow"]
                        ELSE [rq EXCEPT !.pc = "responded",
                                        !.response =
                                            Some(ErrorResponse(
                                                CreateShortsExcept(gate[1])))]]
    /\ UNCHANGED <<wf, orchestrator, task_handler>>

\* lines 1245-1248: orchestrator.run_a2a_workflow(request.topic,
\* video_duration=request.video_duration) runs up to its first await
CallsWorkflow(q) ==
    /\ req[q].pc = "call_workflow"
    /\ wf = <<>>
    /\ LET run == NewRun(req[q].topic, req[q].video_duration, None) IN
       /\ wf' = [r \in {q} |-> StartRun(run)]
       /\ orchestrator' = OrchestratorAfterStart(orchestrator, run)
    /\ req' = [req EXCEPT ![q].pc = "awaiting_workflow"]
    /\ UNCHANGED task_handler

\* lines 1251-1319: the workflow returned
WorkflowReturns(q) ==
    /\ req[q].pc = "awaiting_workflow"
    /\ q \in DOMAIN wf
    /\ wf[q].pc = "done"
    /\ req' = [req EXCEPT ![q] = OnWorkflowResult(req[q], wf[q].outcome[1])]
    /\ UNCHANGED <<wf, orchestrator, task_handler>>

NextCreateShorts ==
    \/ \E q \in DOMAIN req : ChecksHealth(q)
    \/ \E q \in DOMAIN req : EnsureAnswers(q)
    \/ \E q \in DOMAIN req : CallsWorkflow(q)
    \/ \E r \in DOMAIN wf : NextAttempt(r)
    \/ \E r \in DOMAIN wf : Exhausted(r)
    \/ \E r \in DOMAIN wf : PlannerAnswers(r)
    \/ \E r \in DOMAIN wf : ReviewerAnswers(r)
    \/ \E r \in DOMAIN wf : MetadataAnswers(r)
    \/ \E q \in DOMAIN req : WorkflowReturns(q)

SpecCreateShorts == InitCreateShorts /\ [][NextCreateShorts]_vars

-----------------------------------------------------------------------------
(* tools.py: resumable_upload *)

MAX_RETRIES == 10

RETRIABLE_STATUS_CODES == {500, 502, 503, 504}

\* the classes of RETRIABLE_EXCEPTIONS; IOError is OSError
RETRIABLE_EXCEPTIONS == {"HttpLib2Error", "OSError"}

\* the progress chunks (status without response) one upload is given
MaxProgressChunks == 2

\* how one insert_request.next_chunk() ends
ChunkOutcomes ==
    { [kind |-> "progress"],
      [kind |-> "response", response |-> [id |-> "abc123"]],
      [kind |-> "response", response |-> [kind |-> "youtube#video"]],
      [kind |-> "HttpError", status |-> 500],
      [kind |-> "HttpError", status |-> 503],
      [kind |-> "HttpError", status |-> 403],
      [kind |-> "HttpError", status |-> 404],
      [kind |-> "raises", class |-> "HttpLib2Error"],
      [kind |-> "raises", class |-> "OSError"],
      [kind |-> "raises", class |-> "ValueError"] }

\* Mutant: every HttpError is retried
IsRetriableAnyHttpError(outcome) ==
    \/ outcome.kind = "HttpError"
    \/ outcome.kind = "raises" /\ outcome.class \in RETRIABLE_EXCEPTIONS

\* lines 868-880: the except clauses that set `error` instead of raising
IsRetriable(outcome) ==
    \/ outcome.kind = "HttpError" /\ outcome.status \in RETRIABLE_STATUS_CODES
    \/ outcome.kind = "raises" /\ outcome.class \in RETRIABLE_EXCEPTIONS

NewUpload ==
    [pc |-> "loop", retry |-> 0, calls |-> 0, progress |-> 0,
     retriable_failures |-> 0, last |-> None, result |-> None]

\* lines 848-894: one pass of `while response is None`, next_chunk ending
\* with `outcome`
UploadPass(u0, outcome) ==
    LET u == [u0 EXCEPT !.calls = u0.calls + 1, !.last = Some(outcome)] IN
    IF outcome.kind = "progress"
    THEN [u EXCEPT !.progress = u.progress + 1]
    ELSE IF outcome.kind = "response"
    THEN IF "id" \in DOMAIN outcome.response
         THEN [u EXCEPT !.pc = "returned",
                        !.result = Some("https://www.youtube.com/watch?v="
                                        \o outcome.response.id)]
         ELSE [u EXCEPT !.pc = "raised", !.result = Some("no video id")]
    ELSE IF ~IsRetriable(outcome)
    THEN [u EXCEPT !.pc = "raised", !.result = Some(outcome.kind)]
    ELSE LET retry == u.retry + 1 IN
         IF retry > MAX_RETRIES
         THEN [u EXCEPT !.retry = retry,
                        !.retriable_failures = u.retriable_failures + 1,
                        !.pc = "raised", !.result = Some("retries exhausted")]
         ELSE [u EXCEPT !.retry = retry,
                        !.retriable_failures = u.retriable_failures + 1]

InitUpload ==
    /\ req = [q \in {1} |-> NewUpload]
    /\ wf = <<>>
    /\ orchestrator = NewOrchestrator
    /\ task_handler = "unbound"

NextChunk(q) ==
    /\ req[q].pc = "loop"
    /\ \E outcome \in ChunkOutcomes :
          /\ outcome.kind = "progress" => req[q].progress < MaxProgressChunks
          /\ req' = [req EXCEPT ![q] = UploadPass(req[q], outcome)]
    /\ UNCHANGED <<wf, orchestrator, task_handler>>

NextUpload == \E q \in DOMAIN req : NextChunk(q)

SpecUpload == InitUpload /\ [][NextUpload]_vars

-----------------------------------------------------------------------------
(* Vocabulary of the properties *)

CallsTo(w, agent) == {i \in 1..Len(w.calls) : w.calls[i].agent = agent}

IsDone(w) == w.pc = "done"

\* the bound the caller asked for: 5 when no max_iterations is passed
RequestedBound(w) ==
    IF IsNone(w.max_iterations_arg) THEN 5 ELSE w.max_iterations_arg[1]

\* the answer of call i was a TaskStatus in state completed
AnsweredCompleted(call) ==
    /\ ~IsNone(call.result)
    /\ ~call.result[1].raised
    /\ call.result[1].value.state = COMPLETED

\* the generator completed: a completed TaskStatus that carries an output
\* mapping whose content, if any, is text
GeneratorCompleted(call) ==
    /\ AnsweredCompleted(call)
    /\ ~IsNone(call.result[1].value.output)
    /\ IsStr(Get(call.result[1].value.output[1], "prompt", ""))

\* the content a completed generator call produced
GeneratedContent(call) == Get(call.result[1].value.output[1], "prompt", "")

VerdictOf(call) ==
    LET out == IF IsNone(call.result[1].value.output) THEN EmptyDict
               ELSE call.result[1].value.output[1]
    IN [status |-> Get(out, "status", "REJECTED"),
        feedback |-> Get(out, "feedback", ""),
        score |-> Get(out, "score", 0)]

\* the reviewer completed with a verdict: strings and a score in 0..100
ReviewerGaveVerdict(call) ==
    /\ AnsweredCompleted(call)
    /\ LET v == VerdictOf(call) IN
       IsStr(v.status) /\ IsStr(v.feedback) /\ v.score \in 0..100

ReviewerRejected(call) ==
    ReviewerGaveVerdict(call) /\ VerdictOf(call).status # "APPROVED"

ReviewerApproved(call) ==
    ReviewerGaveVerdict(call) /\ VerdictOf(call).status = "APPROVED"

GeneratorAlwaysCompletes(w) ==
    \A i \in CallsTo(w, "planner") : GeneratorCompleted(w.calls[i])

ReviewerAlwaysRejects(w) ==
    \A i \in CallsTo(w, "reviewer") : ReviewerRejected(w.calls[i])

-----------------------------------------------------------------------------
(* C1 *)

\* C1: a finished run with max_iterations = N >= 1 in which every generator
\* call completed and every reviewer call completed with a rejection made
\* exactly N generator calls and N reviewer calls, and returned a log of
\* length 2N, success = false and the max-iterations error.
C1_AlwaysRejectedExhausts ==
    \A r \in DOMAIN wf :
        LET w == wf[r]
            N == RequestedBound(w) IN
        (IsDone(w) /\ N >= 1 /\ GeneratorAlwaysCompletes(w)
                   /\ ReviewerAlwaysRejects(w))
        => /\ Cardinality(CallsTo(w, "planner")) = N
           /\ Cardinality(CallsTo(w, "reviewer")) = N
           /\ Len(w.outcome[1].conversation_log) = 2 * N
           /\ w.outcome[1].success = FALSE
           /\ w.outcome[1].error = ExhaustedError(N)

\* a run with the default bound that was rejected five times and returned
C1_Witness ==
    \E r \in DOMAIN wf :
        /\ IsDone(wf[r])
        /\ IsNone(wf[r].max_iterations_arg)
        /\ GeneratorAlwaysCompletes(wf[r])
        /\ ReviewerAlwaysRejects(wf[r])
        /\ Cardinality(CallsTo(wf[r], "reviewer")) = 5

-----------------------------------------------------------------------------
(* C2 *)

\* C2: a finished run in which every generator call completed, the reviewer
\* rejected attempts 1..k-1 and approved attempt k (k <= N) made exactly k
\* generator and k reviewer calls, and returned a log of length 2k,
\* success = true and the content generated on attempt k.
C2_ApprovedOnAttemptK ==
    \A r \in DOMAIN wf :
        LET w == wf[r]
            k == Cardinality(CallsTo(w, "reviewer")) IN
        (/\ IsDone(w)
         /\ GeneratorAlwaysCompletes(w)
         /\ k >= 1
         /\ \A i \in CallsTo(w, "reviewer") :
               IF w.calls[i].iteration = k THEN ReviewerApproved(w.calls[i])
               ELSE ReviewerRejected(w.calls[i]))
        => /\ k <= RequestedBound(w)
           /\ Cardinality(CallsTo(w, "planner")) = k
           /\ \A i \in CallsTo(w, "reviewer") : w.calls[i].iteration <= k
           /\ Len(w.outcome[1].conversation_log) = 2 * k
           /\ w.outcome[1].success = TRUE
           /\ \E i \in CallsTo(w, "planner") :
                 /\ w.calls[i].iteration = k
                 /\ w.outcome[1].approved_prompt
                        = Some(GeneratedContent(w.calls[i]))

\* a run approved on its third attempt, whose three contents differ from
\* the approved one in the first attempt
C2_Witness ==
    \E r \in DOMAIN wf :
        /\ IsDone(wf[r])
        /\ wf[r].outcome[1].success = TRUE
        /\ wf[r].outcome[1].iterations = 3
        /\ wf[r].outcome[1].approved_prompt = Some("p2")
        /\ wf[r].outcome[1].conversation_log[1].output = "p1"

-----------------------------------------------------------------------------
(* C3 *)

\* the error text of an abort: `result.error or result.message`
ReportedError(status) == OrElse(status.error, status.message)

\* C3: once a generator call is answered with a TaskStatus that is not
\* completed, the run is over: that call is the last remote call of the run
\* (no reviewer call in that attempt, no later generator call), and the
\* outcome has success = false and the Planner error carrying the
\* generator's error (its message when it has no error text).
C3_GeneratorFailureAborts ==
    \A r \in DOMAIN wf :
        LET w == wf[r] IN
        \A i \in CallsTo(w, "planner") :
            (/\ ~IsNone(w.calls[i].result)
             /\ ~w.calls[i].result[1].raised
             /\ w.calls[i].result[1].value.state # COMPLETED)
            => /\ i = Len(w.calls)
               /\ \A j \in CallsTo(w, "reviewer") :
                     w.calls[j].iteration < w.calls[i].iteration
               /\ IsDone(w)
               /\ w.outcome[1].success = FALSE
               /\ w.outcome[1].error
                      = AgentError("Planner",
                                   ReportedError(w.calls[i].result[1].value))
               /\ (Truthy(w.calls[i].result[1].value.error)
                      => w.outcome[1].error.detail
                             = w.calls[i].result[1].value.error)

\* the generator fails on the first attempt although three are allowed:
\* the run is over with one call
C3_Witness ==
    \E r \in DOMAIN wf :
        /\ wf[r].max_iterations_arg = Some(3)
        /\ Len(wf[r].calls) = 1
        /\ ~IsNone(wf[r].calls[1].result)
        /\ ~wf[r].calls[1].result[1].raised
        /\ wf[r].calls[1].result[1].value.state = FAILED
        /\ wf[r].calls[1].result[1].value.error = Some("boom")
        /\ IsDone(wf[r])

-----------------------------------------------------------------------------
(* C4 *)

\* C4: once a reviewer call is answered with a TaskStatus that is not
\* completed, the run is over: that call is the last remote call of the
\* run, whatever the number of attempts left, and the outcome has
\* success = false and the Reviewer error carrying the reviewer's error.
C4_ReviewerFailureAborts ==
    \A r \in DOMAIN wf :
        LET w == wf[r] IN
        \A i \in CallsTo(w, "reviewer") :
            (/\ ~IsNone(w.calls[i].result)
             /\ ~w.calls[i].result[1].raised
             /\ w.calls[i].result[1].value.state # COMPLETED)
            => /\ i = Len(w.calls)
               /\ IsDone(w)
               /\ w.outcome[1].success = FALSE
               /\ w.outcome[1].error
                      = AgentError("Reviewer",
                                   ReportedError(w.calls[i].result[1].value))
               /\ (Truthy(w.calls[i].result[1].value.error)
                      => w.outcome[1].error.detail
                             = w.calls[i].result[1].value.error)

\* the reviewer fails on the first of five allowed attempts
C4_Witness ==
    \E r \in DOMAIN wf :
        /\ IsNone(wf[r].max_iterations_arg)
        /\ Len(wf[r].calls) = 2
        /\ ~IsNone(wf[r].calls[2].result)
        /\ ~wf[r].calls[2].result[1].raised
        /\ wf[r].calls[2].result[1].value.state = FAILED
        /\ IsDone(wf[r])
        /\ wf[r].attempts = 1

-----------------------------------------------------------------------------
(* C5 *)

\* C5: no run makes a generator call beyond attempt max_iterations (5 when
\* the caller passes none); every run, if every remote call is answered,
\* ends; and an outcome, once returned, is the run's only outcome.
C5_BoundedAndTerminates ==
    /\ [](\A r \in DOMAIN wf :
             \A i \in CallsTo(wf[r], "planner") :
                 /\ wf[r].calls[i].iteration <= RequestedBound(wf[r])
                 /\ \A j \in CallsTo(wf[r], "planner") :
                       wf[r].calls[j].iteration = wf[r].calls[i].iteration
                           => i = j)
    /\ \A r \in Runs : <>(IsDone(wf[r]) /\ ~IsNone(wf[r].outcome))
    /\ [][\A r \in DOMAIN wf :
             ~IsNone(wf[r].outcome) => wf'[r].outcome = wf[r].outcome]_vars

\* a run with the default bound that made its fifth generator call
C5_Witness ==
    \E r \in DOMAIN wf :
        /\ IsNone(wf[r].max_iterations_arg)
        /\ Cardinality(CallsTo(wf[r], "planner")) = 5
        /\ IsDone(wf[r])

-----------------------------------------------------------------------------
(* C6 *)

\* the POST failed in transport, by its HTTP status, or by a body that is
\* not the JSON of a TaskStatus
PostFailed(post) ==
    \/ post.kind = "error"
    \/ /\ post.kind = "response"
       /\ \/ post.status_code \notin 200..299
          \/ post.body.json # "object"
          \/ /\ post.body.json = "object"
             /\ \/ ~post.body.well_typed
                \/ IsNone(post.body.state)
                \/ /\ ~IsNone(post.body.state)
                   /\ post.body.state[1] \notin TaskStateValues

-----------------------------------------------------------------------------
(* C7 *)

Raised(rq) ==
    {i \in 1..Len(rq.invocations) :
        /\ ~IsNone(rq.invocations[i].ending)
        /\ rq.invocations[i].ending[1].kind = "raises"}

\* C7: when an invocation of the handler raised, the answer of handle_task
\* is a 200 whose TaskStatus has state failed and, as its error, the
\* description of that exception.
C7_HandlerExceptionBecomesFailed ==
    \A q \in DOMAIN req :
        \A i \in Raised(req[q]) :
            ~IsNone(req[q].response)
            => /\ req[q].response[1].status_code = 200
               /\ req[q].response[1].body.state = Some(FAILED)
               /\ req[q].response[1].body.error
                      = Some(req[q].invocations[i].ending[1].desc)

-----------------------------------------------------------------------------
(* C8 *)

\* the invariant of a TaskStatus: failed exactly when it has a non-empty
\* error, and an output when completed
WellFormedStatus(state, output, error) ==
    /\ (state = FAILED) <=> Truthy(error)
    /\ (state = COMPLETED) => ~IsNone(output)

\* C8: every TaskStatus that handle_task has answered and every TaskStatus
\* that execute_task has returned is well formed.
C8_TaskStatusWellFormed ==
    \A q \in DOMAIN req :
        /\ ~IsNone(req[q].response)
           => WellFormedStatus(req[q].response[1].body.state[1],
                               req[q].response[1].body.output,
                               req[q].response[1].body.error)
        /\ (~IsNone(req[q].client) /\ ~req[q].client[1].raised)
           => WellFormedStatus(req[q].client[1].value.state,
                               req[q].client[1].value.output,
                               req[q].client[1].value.error)

-----------------------------------------------------------------------------
(* C9 *)

\* C9: a request that handle_task has answered had the handler invoked
\* exactly once, and no request ever has it invoked more than once.
C9_HandlerInvokedOnce ==
    \A q \in DOMAIN req :
        /\ Len(req[q].invocations) <= 1
        /\ ~IsNone(req[q].response) => Len(req[q].invocations) = 1

-----------------------------------------------------------------------------
(* C10 *)

\* C10: a synchronous handler runs on a worker thread only, never on the
\* thread of the event loop.
C10_SyncHandlerOffTheLoop ==
    task_handler = "sync"
    => \A q \in DOMAIN req :
           \A i \in 1..Len(req[q].invocations) :
               req[q].invocations[i].thread = "worker"

-----------------------------------------------------------------------------
(* C11 *)

\* the conversation_log of the outcome a run returned
ReturnedLog(w) == w.outcome[1].conversation_log

\* the agent a call went to, under the name the log gives it
AgentName(agent) == IF agent = "planner" THEN "PlannerAgent" ELSE "ReviewerAgent"

\* C11: in a returned conversation_log every review entry directly follows
\* a generate entry of the same iteration, no generate entry directly
\* follows another, and the log is in call order: its i-th entry is the
\* entry of the run's i-th remote call.
C11_ReviewFollowsItsGenerate ==
    \A r \in DOMAIN wf :
        ~IsNone(wf[r].outcome)
        => LET log == ReturnedLog(wf[r])
               calls == wf[r].calls IN
           /\ Len(log) = Len(calls)
           /\ \A i \in 1..Len(log) :
                 /\ log[i].agent = AgentName(calls[i].agent)
                 /\ log[i].iteration = calls[i].iteration
                 /\ log[i].action = "review"
                       => /\ i > 1
                          /\ log[i - 1].action = "generate"
                          /\ log[i - 1].iteration = log[i].iteration
                 /\ (log[i].action = "generate" /\ i > 1)
                       => log[i - 1].action # "generate"

\* a returned log of three attempts: generate, review, generate, review,
\* generate, and the entry of the third review
C11_Witness ==
    \E r \in DOMAIN wf :
        /\ ~IsNone(wf[r].outcome)
        /\ Len(ReturnedLog(wf[r])) = 6
        /\ ReturnedLog(wf[r])[3].action = "generate"
        /\ ReturnedLog(wf[r])[4].action = "review"
        /\ ReturnedLog(wf[r])[6].action = "review"

-----------------------------------------------------------------------------
(* C12 *)

\* C12: in a returned conversation_log the first entry has iteration 1, the
\* iteration numbers never decrease, every generate entry after the first
\* entry has the iteration of the entry before it plus one, and no
\* iteration exceeds max_iterations (5 when the caller passes none).
C12_IterationsCountUp ==
    \A r \in DOMAIN wf :
        ~IsNone(wf[r].outcome)
        => LET log == ReturnedLog(wf[r]) IN
           /\ Len(log) > 0 => log[1].iteration = 1
           /\ \A i \in 1..Len(log) :
                 /\ log[i].iteration <= RequestedBound(wf[r])
                 /\ i > 1 => log[i].iteration >= log[i - 1].iteration
                 /\ (i > 1 /\ log[i].action = "generate")
                       => log[i].iteration = log[i - 1].iteration + 1

\* a returned log that reaches iteration 5, the default bound, where it
\* ends with the error entry of the fifth attempt, whose generator failed
C12_Witness ==
    \E r \in DOMAIN wf :
        /\ ~IsNone(wf[r].outcome)
        /\ IsNone(wf[r].max_iterations_arg)
        /\ Len(ReturnedLog(wf[r])) = 9
        /\ ReturnedLog(wf[r])[8].iteration = 4
        /\ ReturnedLog(wf[r])[9].action = "error"
        /\ ReturnedLog(wf[r])[9].iteration = 5

-----------------------------------------------------------------------------
(* C13 *)

\* C13: every outcome a run returned carries a conversation_log with at
\* least one entry, whatever max_iterations the caller passed.
C13_LogNeverEmpty ==
    \A r \in DOMAIN wf :
        ~IsNone(wf[r].outcome) => Len(ReturnedLog(wf[r])) > 0

-----------------------------------------------------------------------------
(* C14 *)

\* C14: an outcome with success = false has no approved_prompt and no
\* youtube_metadata; an outcome with success = true has both, and is the
\* outcome of a run whose last remote call is a review that approved.
C14_OnlyApprovedCarriesContent ==
    \A r \in DOMAIN wf :
        ~IsNone(wf[r].outcome)
        => LET out == wf[r].outcome[1]
               calls == wf[r].calls IN
           /\ out.success = FALSE
                 => IsNone(out.approved_prompt) /\ IsNone(out.youtube_metadata)
           /\ out.success = TRUE
                 => /\ ~IsNone(out.approved_prompt)
                    /\ ~IsNone(out.youtube_metadata)
                    /\ Len(calls) > 0
                    /\ calls[Len(calls)].agent = "reviewer"
                    /\ ReviewerApproved(calls[Len(calls)])

\* a run that generated content twice, was rejected twice and returned the
\* exhausted outcome
C14_Witness ==
    \E r \in DOMAIN wf :
        /\ ~IsNone(wf[r].outcome)
        /\ wf[r].max_iterations_arg = Some(2)
        /\ wf[r].outcome[1].success = FALSE
        /\ wf[r].outcome[1].error = ExhaustedError(2)
        /\ wf[r].generated_prompt = "p2"

-----------------------------------------------------------------------------
(* C15 *)

\* the metadata call of an approved run failed: it raised, or answered
\* something that is not valid metadata
MetadataFailed(w) ==
    ~IsNone(w.metadata_dict) /\ w.metadata_dict[1].kind # "valid"

\* C15: a run whose reviewer approved and whose metadata call then failed
\* has returned success = true with the approved content, and as
\* youtube_metadata the default made from the topic: a title and a
\* description that are not empty and name the topic, and a tag list that
\* is not empty.
C15_MetadataFailureKeepsSuccess ==
    \A r \in DOMAIN wf :
        LET w == wf[r] IN
        MetadataFailed(w)
        => /\ IsDone(w)
           /\ w.outcome[1].success = TRUE
           /\ w.outcome[1].approved_prompt
                  = Some(GeneratedContent(w.calls[Len(w.calls) - 1]))
           /\ w.outcome[1].final_score = VerdictOf(w.calls[Len(w.calls)]).score
           /\ ~IsNone(w.outcome[1].youtube_metadata)
           /\ LET m == w.outcome[1].youtube_metadata[1] IN
              /\ m.title = "Healing " \o w.user_topic \o " - Relaxing ASMR Video"
              /\ m.title # ""
              /\ m.description # ""
              /\ Len(m.tags) > 0

\* approval on the second attempt, then a metadata call that raised
C15_Witness ==
    \E r \in DOMAIN wf :
        /\ IsDone(wf[r])
        /\ wf[r].metadata_dict = Some([kind |-> "raises"])
        /\ wf[r].attempts = 2
        /\ wf[r].outcome[1].approved_prompt = Some("p2")

-----------------------------------------------------------------------------
(* C16 *)

\* the review of attempt k, if the run has it
ReviewOf(w, k) ==
    {j \in CallsTo(w, "reviewer") :
        w.calls[j].iteration = k /\ ~IsNone(w.calls[j].result)}

\* C16: the generator task of attempt 1 carries the topic and no feedback;
\* the generator task of an attempt k > 1 carries, as its feedback and as
\* its instruction, the rejection text whose reason is the whole feedback of
\* the review of attempt k-1.
C16_LatestFeedbackVerbatim ==
    \A r \in DOMAIN wf :
        LET w == wf[r] IN
        \A i \in CallsTo(w, "planner") :
            LET k == w.calls[i].iteration
                task == w.calls[i].task IN
            IF k = 1
            THEN /\ task.topic = TopicText(w.user_topic)
                 /\ IsNone(task.feedback)
            ELSE /\ ReviewOf(w, k - 1) # {}
                 /\ \A j \in ReviewOf(w, k - 1) :
                       /\ j = i - 1
                       /\ ~IsNone(task.feedback)
                       /\ task.feedback[1].kind = "rejected"
                       /\ task.feedback[1].feedback
                              = VerdictOf(w.calls[j]).feedback
                       /\ task.topic = task.feedback[1]
                       /\ task.topic.topic = w.user_topic

\* a third attempt whose task carries the feedback of the second review,
\* which differs from the feedback of the first
C16_Witness ==
    \E r \in DOMAIN wf :
        /\ Len(wf[r].calls) >= 5
        /\ wf[r].calls[5].agent = "planner"
        /\ wf[r].calls[5].iteration = 3
        /\ wf[r].calls[5].task.feedback[1].feedback = "too long"
        /\ VerdictOf(wf[r].calls[2]).feedback = "needs more detail"
        /\ VerdictOf(wf[r].calls[4]).feedback = "too long"

-----------------------------------------------------------------------------
(* C17 *)

\* C17: every generator task of a run carries, as video_duration, and every
\* reviewer task, as expected_duration, the duration the caller passed.
C17_DurationPassedThrough ==
    \A r \in DOMAIN wf :
        LET w == wf[r] IN
        \A i \in 1..Len(w.calls) :
            IF w.calls[i].agent = "planner"
            THEN w.calls[i].task.video_duration = w.video_duration
            ELSE w.calls[i].task.expected_duration = w.video_duration

\* the second attempt of a run called with 45.5 seconds: both of its tasks
\* carry 45.5 seconds while the instruction text says 45
C17_Witness ==
    \E r \in DOMAIN wf :
        /\ wf[r].video_duration = Some(455)
        /\ Len(wf[r].calls) = 4
        /\ wf[r].calls[3].task.video_duration = Some(455)
        /\ wf[r].calls[3].task.topic.duration = Some(45)
        /\ wf[r].calls[4].task.expected_duration = Some(455)

-----------------------------------------------------------------------------
(* C18 *)

\* the remote calls of a run that have no result yet
Outstanding(w) == {i \in 1..Len(w.calls) : IsNone(w.calls[i].result)}

\* C18: a run has at most one remote call without a result, and it is the
\* call issued last: every call before it has been answered.
C18_OneCallOutstanding ==
    \A r \in DOMAIN wf :
        LET w == wf[r] IN
        /\ Cardinality(Outstanding(w)) <= 1
        /\ \A i \in Outstanding(w) : i = Len(w.calls)
        /\ (Outstanding(w) # {}) <=> (w.inflight \in {"planner", "reviewer"})

\* the reviewer call of the second attempt is outstanding, the three calls
\* before it are answered
C18_Witness ==
    \E r \in DOMAIN wf :
        /\ Len(wf[r].calls) = 4
        /\ Outstanding(wf[r]) = {4}
        /\ wf[r].inflight = "reviewer"

-----------------------------------------------------------------------------
(* C19 *)

\* The run that the arguments of w and the answers w itself received make
\* on an instance of its own, taken as far as w has come: the steps are
\* those of the workflow, the answers are read from w's own calls and
\* metadata_dict, and the bound is resolved on a new instance.
RECURSIVE Replay(_, _)
Replay(x, w) ==
    IF x.pc = "start"
    THEN IF w.pc = "start" THEN x
         ELSE Replay([StartRun(x) EXCEPT !.max_iterations =
                         ResolveMaxIterations(NewOrchestrator,
                                              x.max_iterations_arg)], w)
    ELSE IF x.pc = "loop"
    THEN IF LoopCondition(x)
         THEN IF Len(w.calls) > Len(x.calls) THEN Replay(CallPlanner(x), w)
              ELSE x
         ELSE IF IsDone(w) THEN FinalReturn(x) ELSE x
    ELSE IF x.pc \in {"await_planner", "await_reviewer"}
    THEN IF Len(w.calls) < Len(x.calls) \/ IsNone(w.calls[Len(x.calls)].result)
         THEN x
         ELSE IF x.pc = "await_planner"
         THEN Replay(OnPlannerResult(x, w.calls[Len(x.calls)].result[1]), w)
         ELSE Replay(OnReviewerResult(x, w.calls[Len(x.calls)].result[1]), w)
    ELSE IF x.pc = "await_metadata"
    THEN IF IsNone(w.metadata_dict) THEN x
         ELSE OnMetadataResult(x, w.metadata_dict[1])
    ELSE x

Alone(w) ==
    Replay([NewRun(w.user_topic, w.video_duration, w.max_iterations_arg)
               EXCEPT !.remote = w.remote], w)

\* C19: with two runs interleaved on one instance, each run's
\* conversation_log, attempt counter, current instruction and outcome are
\* those of the run its own answers make alone, and a step of one run
\* changes nothing of the other.
C19_RunsIndependent ==
    /\ [](\A r \in DOMAIN wf :
             LET w == wf[r]
                 a == Alone(wf[r]) IN
             /\ w.conversation_log = a.conversation_log
             /\ w.attempts = a.attempts
             /\ w.current_prompt = a.current_prompt
             /\ w.outcome = a.outcome
             /\ w.pc = a.pc)
    /\ [][\A r \in DOMAIN wf :
             wf'[r] # wf[r]
             => \A o \in DOMAIN wf \ {r} : wf'[o] = wf[o]]_vars

\* the second run is in its third attempt, started after the first run
\* resolved its own bound of 2 and while the first run waits for its reviewer
C19_Witness ==
    /\ wf[1].max_iterations_arg = Some(2)
    /\ wf[1].pc = "await_reviewer"
    /\ wf[1].attempts = 2
    /\ wf[2].pc = "await_planner"
    /\ wf[2].attempts = 3
    /\ wf[2].max_iterations = 5

-----------------------------------------------------------------------------
(* C20 *)

ClientOf(w, agent) ==
    IF agent = "planner" THEN w.planner_client ELSE w.reviewer_client

\* C20: a run that has returned, on whichever path, has both clients
\* closed; a client with a call outstanding is open; a client is closed
\* only in a run that has returned, and a run whose client is closed issues
\* no further call.
C20_ClientsClosedOnExit ==
    /\ [](\A r \in DOMAIN wf :
             LET w == wf[r] IN
             /\ (IsDone(w) \/ ~IsNone(w.outcome))
                   => /\ w.planner_client = "closed"
                      /\ w.reviewer_client = "closed"
                      /\ IsDone(w) /\ ~IsNone(w.outcome)
             /\ \A i \in Outstanding(w) :
                   ClientOf(w, w.calls[i].agent) = "open"
             /\ \A agent \in {"planner", "reviewer"} :
                   ClientOf(w, agent) = "closed"
                       => IsDone(w) /\ Outstanding(w) = {})
    /\ [][\A r \in DOMAIN wf :
             \A agent \in {"planner", "reviewer"} :
                 ClientOf(wf[r], agent) = "closed"
                     => /\ wf'[r].calls = wf[r].calls
                        /\ ClientOf(wf'[r], agent) = "closed"]_vars

\* a run that ended by an exception inside the reviewer step of its second
\* attempt (a verdict that is not a ReviewResult), after four remote calls
C20_Witness ==
    \E r \in DOMAIN wf :
        /\ IsDone(wf[r])
        /\ Len(wf[r].calls) = 4
        /\ wf[r].outcome[1].error
               = AgentError("Reviewer", Some("ValidationError"))
        /\ wf[r].planner_client = "closed"
        /\ wf[r].reviewer_client = "closed"

-----------------------------------------------------------------------------
(* C21 *)

\* the fixed text the error of an outcome begins with: the words of an
\* agent failure (lines 102, 139, 172, 252) or those of exhaustion (264)
AgentFailureCategories == {"Planner", "Reviewer"}

ExhaustionCategory == "max_iterations_reached"

\* the run was aborted: its log ends with an error entry
Aborted(w) ==
    /\ Len(ReturnedLog(w)) > 0
    /\ ReturnedLog(w)[Len(ReturnedLog(w))].action = "error"

\* C21: every unsuccessful outcome carries an error whose category is that
\* of an agent failure exactly when the run was aborted and that of
\* exhaustion exactly when the bound ran out without an abort; the two are
\* never the same.
C21_FailureCategoriesDistinct ==
    /\ ExhaustionCategory \notin AgentFailureCategories
    /\ \A r \in DOMAIN wf :
          (~IsNone(wf[r].outcome) /\ wf[r].outcome[1].success = FALSE)
          => LET w == wf[r]
                 error == w.outcome[1].error IN
             /\ error.category \in AgentFailureCategories \cup {ExhaustionCategory}
             /\ (error.category \in AgentFailureCategories) <=> Aborted(w)
             /\ (error.category = ExhaustionCategory)
                    <=> (~Aborted(w) /\ w.attempts >= RequestedBound(w))
             /\ Aborted(w)
                    => error.category
                           = (IF ReturnedLog(w)[Len(ReturnedLog(w))].agent
                                     = "PlannerAgent"
                              THEN "Planner" ELSE "Reviewer")

\* the reviewer failed on the last allowed attempt of a run with bound 2:
\* the outcome is an abort, not an exhaustion
C21_Witness ==
    \E r \in DOMAIN wf :
        /\ ~IsNone(wf[r].outcome)
        /\ wf[r].max_iterations_arg = Some(2)
        /\ wf[r].attempts = 2
        /\ Aborted(wf[r])
        /\ wf[r].outcome[1].error.category = "Reviewer"

-----------------------------------------------------------------------------
(* C22 *)

\* C22: a successful outcome has as final_score the score of the review
\* that approved, the run's last, and as iterations the number of that
\* attempt; an unsuccessful outcome has final_score 0.
C22_ScoreOfApprovingReview ==
    \A r \in DOMAIN wf :
        ~IsNone(wf[r].outcome)
        => LET w == wf[r]
               out == w.outcome[1] IN
           IF out.success
           THEN /\ ReviewerApproved(w.calls[Len(w.calls)])
                /\ out.final_score = VerdictOf(w.calls[Len(w.calls)]).score
                /\ out.iterations = w.calls[Len(w.calls)].iteration
                /\ out.iterations = Cardinality(CallsTo(w, "reviewer"))
           ELSE out.final_score = 0

\* topic "Rain", max_iterations = 3, a rejection with score 40 and then an
\* approval with score 85: iterations 2, final_score 85, a log of 4
C22_Witness ==
    \E r \in DOMAIN wf :
        /\ ~IsNone(wf[r].outcome)
        /\ wf[r].user_topic = "Rain"
        /\ wf[r].max_iterations_arg = Some(3)
        /\ Len(wf[r].calls) = 4
        /\ VerdictOf(wf[r].calls[2]).score = 40
        /\ VerdictOf(wf[r].calls[2]).feedback = "needs more detail"
        /\ wf[r].outcome[1].success = TRUE
        /\ wf[r].outcome[1].iterations = 2
        /\ wf[r].outcome[1].final_score = 85
        /\ Len(ReturnedLog(wf[r])) = 4

-----------------------------------------------------------------------------
(* C23 *)

\* the reviewer completed with a verdict that is not a ReviewResult
UnparseableVerdict(call) ==
    AnsweredCompleted(call) /\ ~ReviewerGaveVerdict(call)

\* C23: a completed review whose verdict cannot be parsed counts as a
\* rejection: its attempt has a review entry in the log and not an error
\* entry, and the run does not end with it while attempts remain.
C23_UnparseableVerdictIsRejection ==
    \A r \in DOMAIN wf :
        LET w == wf[r] IN
        \A i \in CallsTo(w, "reviewer") :
            UnparseableVerdict(w.calls[i])
            => /\ w.conversation_log[i].action = "review"
               /\ (IsDone(w) /\ i = Len(w.calls))
                      => w.calls[i].iteration >= RequestedBound(w)

-----------------------------------------------------------------------------
(* a2a_client.py: get_agent_card and health_check; models.py: Task *)

\* response.json() of GET /a2a/agent_card
CardBody == [json |-> "object", card_valid |-> TRUE]

\* what self.client.get(...) meets: an answer, an httpx.HTTPError
\* (ConnectError, ReadTimeout with an empty str()), httpx.InvalidURL, which
\* is an Exception but no HTTPError, or the cancellation of the awaiting
\* coroutine, asyncio.CancelledError, which is a BaseException only
Gets ==
    { Response(200, CardBody),
      Response(200, [json |-> "object", card_valid |-> FALSE]),
      Response(200, [json |-> "array"]),
      Response(204, [json |-> "invalid"]),
      Response(301, [json |-> "invalid"]),
      Response(404, [json |-> "invalid"]),
      Response(500, CardBody),
      TransportError("ConnectError"),
      ReadTimeout,
      [kind |-> "error", class |-> "Exception", desc |-> "InvalidURL"],
      [kind |-> "error", class |-> "BaseException", desc |-> "CancelledError"] }

\* AgentCard(**response.json())
ParseAgentCard(body) ==
    IF body.json = "invalid"
    THEN [raised |-> TRUE, class |-> "Exception", desc |-> "JSONDecodeError"]
    ELSE IF body.json = "array"
    THEN [raised |-> TRUE, class |-> "Exception", desc |-> "TypeError"]
    ELSE IF ~body.card_valid
    THEN [raised |-> TRUE, class |-> "Exception", desc |-> "ValidationError"]
    ELSE [raised |-> FALSE, value |-> "AgentCard"]

\* Mutant: the status of the answer is not looked at
GetAgentCardAnyStatus(get) ==
    IF get.kind # "response"
    THEN [raised |-> TRUE, class |-> "Exception",
          desc |-> "AgentCard lookup failed: " \o get.desc]
    ELSE ParseAgentCard(get.body)

\* a2a_client.py lines 37-42: only httpx.HTTPError is caught, and raised
\* again as an Exception
GetAgentCard(get) ==
    IF get.kind # "response"
    THEN IF get.class = "HTTPError"
         THEN [raised |-> TRUE, class |-> "Exception",
               desc |-> "AgentCard lookup failed: " \o get.desc]
         ELSE [raised |-> TRUE, class |-> get.class, desc |-> get.desc]
    ELSE IF ~IsSuccess(get.status_code)
    THEN [raised |-> TRUE, class |-> "Exception",
          desc |-> "AgentCard lookup failed: HTTPStatusError"]
    ELSE ParseAgentCard(get.body)

\* Mutant: the except clause names httpx.HTTPError
HealthCheckExceptHTTPError(get) ==
    IF get.kind = "response"
    THEN [raised |-> FALSE, value |-> IsSuccess(get.status_code)]
    ELSE IF get.class = "HTTPError"
    THEN [raised |-> FALSE, value |-> FALSE]
    ELSE [raised |-> TRUE, class |-> get.class, desc |-> get.desc]

\* a2a_client.py lines 85-90: the bare except catches everything
HealthCheck(get) ==
    IF get.kind = "response" /\ IsSuccess(get.status_code)
    THEN [raised |-> FALSE, value |-> TRUE]
    ELSE [raised |-> FALSE, value |-> FALSE]

\* keyword arguments of Task(...): a key that is absent was not passed, an
\* input of None was passed as None
TaskArgs ==
    { [skill |-> "plan"],
      [skill |-> "plan", task_id |-> "t1"],
      [skill |-> "plan", input |-> None],
      [skill |-> "plan", input |-> Some(EmptyDict)],
      [skill |-> "plan", input |-> Some([topic |-> "Rain"])],
      [skill |-> "review", input |-> Some([prompt |-> "p1"]), task_id |-> "t2"],
      [input |-> Some([topic |-> "Rain"])] }

\* models.py lines 107-111: skill and input are required fields, input is
\* a Dict and not Optional, task_id defaults to None
TaskConstruct(args) ==
    IF "skill" \notin DOMAIN args \/ "input" \notin DOMAIN args
       \/ IsNone(args.input)
    THEN [raised |-> TRUE, class |-> "Exception", desc |-> "ValidationError"]
    ELSE [raised |-> FALSE,
          value |-> [skill |-> args.skill, input |-> args.input,
                     task_id |-> IF "task_id" \in DOMAIN args
                                 THEN Some(args.task_id) ELSE None]]

NumProbes == 2

Probes == 1..NumProbes

ProbeOps == {"get_agent_card", "health_check", "Task"}

NewProbe(op) == [pc |-> "new", op |-> op, arg |-> None, result |-> None]

ProbeDone(pr, arg, result) ==
    [pr EXCEPT !.pc = "done", !.arg = Some(arg), !.result = Some(result)]

InitProbes ==
    /\ req \in [Probes -> {NewProbe(op) : op \in ProbeOps}]
    /\ task_handler = "async"
    /\ wf = <<>>
    /\ orchestrator = NewOrchestrator

\* line 38: the GET for the card is sent
CallGetAgentCard(p) ==
    /\ req[p].pc = "new"
    /\ req[p].op = "get_agent_card"
    /\ req' = [req EXCEPT ![p].pc = "awaiting"]
    /\ UNCHANGED <<wf, orchestrator, task_handler>>

\* lines 38-42: get_agent_card ends
GetAgentCardEnds(p) ==
    /\ req[p].pc = "awaiting"
    /\ req[p].op = "get_agent_card"
    /\ \E get \in Gets :
          req' = [req EXCEPT ![p] = ProbeDone(req[p], get, GetAgentCard(get))]
    /\ UNCHANGED <<wf, orchestrator, task_handler>>

\* line 86: the GET /health is sent
CallHealthCheck(p) ==
    /\ req[p].pc = "new"
    /\ req[p].op = "health_check"
    /\ req' = [req EXCEPT ![p].pc = "awaiting"]
    /\ UNCHANGED <<wf, orchestrator, task_handler>>

\* lines 86-90: health_check ends
HealthCheckEnds(p) ==
    /\ req[p].pc = "awaiting"
    /\ req[p].op = "health_check"
    /\ \E get \in Gets :
          req' = [req EXCEPT ![p] = ProbeDone(req[p], get, HealthCheck(get))]
    /\ UNCHANGED <<wf, orchestrator, task_handler>>

\* Task(**args)
ConstructTask(p) ==
    /\ req[p].pc = "new"
    /\ req[p].op = "Task"
    /\ \E args \in TaskArgs :
          req' = [req EXCEPT ![p] = ProbeDone(req[p], args, TaskConstruct(args))]
    /\ UNCHANGED <<wf, orchestrator, task_handler>>

NextProbes ==
    \/ \E p \in DOMAIN req : CallGetAgentCard(p)
    \/ \E p \in DOMAIN req : GetAgentCardEnds(p)
    \/ \E p \in DOMAIN req : CallHealthCheck(p)
    \/ \E p \in DOMAIN req : HealthCheckEnds(p)
    \/ \E p \in DOMAIN req : ConstructTask(p)

SpecProbes == InitProbes /\ [][NextProbes]_vars

-----------------------------------------------------------------------------
(* C24 *)

\* the agent server answered request q: how the handler's invocation ended
AgentAnswered(q) ==
    /\ task_handler \in AgentHandlers
    /\ req[q].pc \in {"responded", "done"}
    /\ Len(req[q].invocations) > 0

LastEnding(q) == req[q].invocations[Len(req[q].invocations)].ending[1]

\* C24: a task whose skill is not on the receiving server's AgentCard is
\* answered with state failed and an error, and the handler's decision
\* logic is not called for it.
C24_UnlistedSkillFails ==
    \A q \in DOMAIN req :
        (AgentAnswered(q) /\ req[q].task[1].skill \notin CardSkills(task_handler))
        => /\ LastEnding(q).value.state = FAILED
           /\ Truthy(LastEnding(q).value.error)
           /\ IsNone(LastEnding(q).logic)

-----------------------------------------------------------------------------
(* C25 *)

\* the decision logic was called for request q and its content generation
\* raised
LogicThrew(q) ==
    /\ AgentAnswered(q)
    /\ ~IsNone(LastEnding(q).logic)
    /\ LastEnding(q).logic[1].outcome.kind = "raises"

\* C25: when the planner's or the reviewer's content generation raises, the
\* server answers with state failed, never with a completed REJECTED verdict.
C25_LogicFailureIsFailed ==
    \A q \in DOMAIN req :
        (LogicThrew(q)
         /\ task_handler \in {"handle_planner_task", "handle_reviewer_task"})
        => LastEnding(q).value.state = FAILED

-----------------------------------------------------------------------------
(* C26 *)

\* C26: every TaskStatus execute_task returns for a call to one of the four
\* agent servers has state completed or failed.
C26_AgentCallsResolve ==
    \A q \in DOMAIN req :
        (task_handler \in AgentHandlers /\ req[q].pc = "done")
        => /\ ~req[q].client[1].raised
           /\ req[q].client[1].value.state \in {COMPLETED, FAILED}

\* the producer's answer to a task with a prompt came back through
\* execute_task as completed
C26_Witness ==
    \E q \in DOMAIN req :
        /\ task_handler = "handle_producer_task"
        /\ req[q].pc = "done"
        /\ req[q].post[1].kind = "response"
        /\ req[q].client[1].value.state = COMPLETED
        /\ ~IsNone(LastEnding(q).logic)

-----------------------------------------------------------------------------
(* C27 *)

\* the call of probe p has ended
ProbeEnded(p, op) == req[p].pc = "done" /\ req[p].op = op

\* connection error, timeout or an answer whose status is not 2xx
TransportOrHttpFailure(get) ==
    \/ get.kind = "error" /\ get.class = "HTTPError"
    \/ get.kind = "response" /\ ~IsSuccess(get.status_code)

\* C27: get_agent_card raises on every transport or HTTP failure and returns
\* no AgentCard then, whereas execute_task turns the same failure into a
\* failed TaskStatus.
C27_GetAgentCardRaises ==
    \A p \in DOMAIN req :
        (ProbeEnded(p, "get_agent_card")
         /\ TransportOrHttpFailure(req[p].arg[1]))
        => /\ req[p].result[1].raised
           /\ ~ExecuteTask(req[p].arg[1]).raised
           /\ ExecuteTask(req[p].arg[1]).value.state = FAILED

\* the card was asked for and the server answered 500
C27_Witness ==
    \E p \in DOMAIN req :
        /\ ProbeEnded(p, "get_agent_card")
        /\ req[p].arg[1].kind = "response"
        /\ req[p].arg[1].status_code = 500
        /\ req[p].result[1].raised

-----------------------------------------------------------------------------
(* C28 *)

\* C28: health_check never raises; it returns True exactly when /health
\* answered with a 2xx status.
C28_HealthCheckNeverRaises ==
    \A p \in DOMAIN req :
        ProbeEnded(p, "health_check")
        => /\ ~req[p].result[1].raised
           /\ req[p].result[1].value
                  = (/\ req[p].arg[1].kind = "response"
                     /\ IsSuccess(req[p].arg[1].status_code))

\* the URL of the agent was invalid and health_check returned False
C28_Witness ==
    \E p \in DOMAIN req :
        /\ ProbeEnded(p, "health_check")
        /\ req[p].arg[1].kind = "error"
        /\ req[p].arg[1].class # "HTTPError"
        /\ req[p].result[1] = [raised |-> FALSE, value |-> FALSE]

-----------------------------------------------------------------------------
(* C29 *)

\* C29: a Task constructed without an input has the empty mapping as its
\* input, and no constructed Task has a null input.
C29_InputDefaultsToEmpty ==
    \A p \in DOMAIN req :
        ProbeEnded(p, "Task")
        => /\ ("skill" \in DOMAIN req[p].arg[1]
               /\ "input" \notin DOMAIN req[p].arg[1])
              => /\ ~req[p].result[1].raised
                 /\ req[p].result[1].value.input = Some(EmptyDict)
           /\ ~req[p].result[1].raised
              => ~IsNone(req[p].result[1].value.input)

-----------------------------------------------------------------------------
(* C30 *)

\* the requests whose synchronous handler is running on a worker thread
OnWorker == {q \in DOMAIN req : req[q].pc = "on_worker"}

\* a fixed pool size is a number the requests in flight can exceed; the
\* smallest case is a pool one smaller than the requests of the model
PoolSize == NumRequests - 1

\* C30: the worker threads running synchronous handlers at the same time
\* are never more than a fixed pool size, however many requests are in
\* flight.
C30_WorkersBounded ==
    ~IsCoroutineFunction(task_handler) => Cardinality(OnWorker) <= PoolSize

-----------------------------------------------------------------------------
(* C31 *)

\* C31: a completed reviewer result approves only when its status is exactly
\* "APPROVED". Any other verdict (no output, no status, another status
\* string) is a rejection: it is logged as the review of its attempt, the
\* next call, if any, is the generator call of the next attempt, the run ends
\* after it only when no attempt remains, and it never yields success.
C31_OnlyExactApprovedApproves ==
    \A r \in DOMAIN wf :
        LET w == wf[r] IN
        \A i \in CallsTo(w, "reviewer") :
            LET call == w.calls[i] IN
            /\ ReviewerRejected(call)
               => /\ w.conversation_log[2 * call.iteration].action = "review"
                  /\ w.conversation_log[2 * call.iteration].output.status
                         = VerdictOf(call).status
                  /\ IF i < Len(w.calls)
                     THEN /\ w.calls[i + 1].agent = "planner"
                          /\ w.calls[i + 1].iteration = call.iteration + 1
                          /\ call.iteration < w.max_iterations
                     ELSE /\ w.pc \in {"loop", "done"}
                          /\ IsNone(w.approved_prompt)
                          /\ IsDone(w)
                             => /\ call.iteration = w.max_iterations
                                /\ w.outcome[1].success = FALSE
                                /\ w.outcome[1].error
                                       = ExhaustedError(w.max_iterations)
            /\ ReviewerApproved(call)
               => /\ i = Len(w.calls)
                  /\ ~IsNone(w.approved_prompt)
                  /\ IsDone(w) => w.outcome[1].success = TRUE

\* a finished run of three attempts whose reviewer answered with no output,
\* then with the status MAYBE, then without a status
C31_Witness ==
    \E r \in DOMAIN wf :
        /\ IsDone(wf[r])
        /\ Len(wf[r].calls) = 6
        /\ AnsweredCompleted(wf[r].calls[2])
        /\ IsNone(wf[r].calls[2].result[1].value.output)
        /\ ReviewerRejected(wf[r].calls[4])
        /\ VerdictOf(wf[r].calls[4]).status = "MAYBE"
        /\ ReviewerRejected(wf[r].calls[6])
        /\ "status" \notin DOMAIN wf[r].calls[6].result[1].value.output[1]
        /\ wf[r].outcome[1].success = FALSE

-----------------------------------------------------------------------------
(* C32 *)

\* the POST of request q was answered by handle_task and the answer reached
\* execute_task, and the handler had returned a TaskStatus
HandlerAnswerReceived(q) ==
    /\ req[q].pc = "done"
    /\ req[q].post[1].kind = "response"
    /\ Len(req[q].invocations) > 0
    /\ LastEnding(q).kind = "returns"

-----------------------------------------------------------------------------
(* C33 *)

\* an exception was raised inside the step that handled the answer of
\* `call`: execute_task raised, the completed generator result has no output
\* mapping or a content that is no text, or the completed reviewer result
\* holds a verdict ReviewResult refuses
StepRaised(call) ==
    /\ ~IsNone(call.result)
    /\ \/ call.result[1].raised
       \/ /\ call.agent = "planner"
          /\ AnsweredCompleted(call)
          /\ ~GeneratorCompleted(call)
       \/ /\ call.agent = "reviewer"
          /\ AnsweredCompleted(call)
          /\ ~ReviewerGaveVerdict(call)

ErrorEntries(log) == {k \in 1..Len(log) : log[k].action = "error"}

\* C33: an exception raised inside a generate or review step does not leave
\* run_a2a_workflow: the run returns an outcome with success = false whose
\* log ends with the one error entry of the acting agent and the current
\* iteration, and the call of that step is the last remote call.
C33_StepExceptionIsReturned ==
    \A r \in DOMAIN wf :
        LET w == wf[r] IN
        \A i \in 1..Len(w.calls) :
            StepRaised(w.calls[i])
            => /\ i = Len(w.calls)
               /\ IsDone(w)
               /\ "success" \in DOMAIN w.outcome[1]
               /\ w.outcome[1].success = FALSE
               /\ w.outcome[1].iterations = w.calls[i].iteration
               /\ LET log == w.outcome[1].conversation_log IN
                  /\ Len(log) > 0
                  /\ ErrorEntries(log) = {Len(log)}
                  /\ log[Len(log)].agent = AgentName(w.calls[i].agent)
                  /\ log[Len(log)].iteration = w.calls[i].iteration

\* the generator's second answer is completed but carries no output
\* mapping; the run returned with the error entry of iteration 2
C33_Witness ==
    \E r \in DOMAIN wf :
        /\ IsDone(wf[r])
        /\ wf[r].max_iterations = 3
        /\ Len(wf[r].calls) = 3
        /\ AnsweredCompleted(wf[r].calls[3])
        /\ IsNone(wf[r].calls[3].result[1].value.output)
        /\ wf[r].outcome[1].success = FALSE
        /\ wf[r].outcome[1].conversation_log[3]
               = ErrorEntry(2, "PlannerAgent", Some("AttributeError"))

-----------------------------------------------------------------------------
(* C34 *)

\* the generator completed with an empty content (or without a "prompt")
EmptyContent(call) ==
    /\ call.agent = "planner"
    /\ GeneratorCompleted(call)
    /\ GeneratedContent(call) = ""

\* C34: after a completed generator result with empty content the reviewer
\* is called with the empty prompt, the reviewer server answers failed, and
\* the run ends in that iteration with a Reviewer error and no verdict,
\* whatever the number of attempts left.
C34_EmptyContentAborts ==
    \A r \in DOMAIN wf :
        LET w == wf[r] IN
        \A i \in 1..Len(w.calls) :
            EmptyContent(w.calls[i])
            => /\ Len(w.calls) = i + 1
               /\ w.calls[i + 1].agent = "reviewer"
               /\ w.calls[i + 1].iteration = w.calls[i].iteration
               /\ w.calls[i + 1].task.prompt = ""
               /\ ~IsNone(w.calls[i + 1].result)
                  => /\ ~w.calls[i + 1].result[1].raised
                     /\ w.calls[i + 1].result[1].value.state = FAILED
                     /\ IsDone(w)
                     /\ w.outcome[1].success = FALSE
                     /\ w.outcome[1].error.category = "Reviewer"
                     /\ w.outcome[1].iterations = w.calls[i].iteration
                     /\ \A k \in 1..Len(w.conversation_log) :
                           w.conversation_log[k].action = "review"
                           => w.conversation_log[k].iteration
                                  < w.calls[i].iteration

\* the planner server generated an empty storyboard on the first of three
\* attempts and the run ended there
C34_Witness ==
    \E r \in DOMAIN wf :
        /\ IsDone(wf[r])
        /\ wf[r].max_iterations = 3
        /\ Len(wf[r].calls) = 2
        /\ EmptyContent(wf[r].calls[1])
        /\ "prompt" \in DOMAIN wf[r].calls[1].result[1].value.output[1]
        /\ wf[r].calls[2].result[1].value.state = FAILED
        /\ wf[r].outcome[1].iterations = 1

-----------------------------------------------------------------------------
(* C35 *)

\* the caller passed a max_iterations that allows no attempt
NoAttemptAllowed(w) ==
    ~IsNone(w.max_iterations_arg) /\ w.max_iterations_arg[1] <= 0

\* C35: a run called with max_iterations <= 0 makes no generator call and no
\* reviewer call, and returns success = false, iterations = 0, an empty
\* conversation_log and the max-iterations error.
C35_NoAttemptRun ==
    \A r \in DOMAIN wf :
        LET w == wf[r] IN
        NoAttemptAllowed(w)
        => /\ w.calls = <<>>
           /\ w.pc \in {"start", "loop", "done"}
           /\ IsDone(w)
              => /\ w.outcome[1].success = FALSE
                 /\ w.outcome[1].iterations = 0
                 /\ w.outcome[1].conversation_log = <<>>
                 /\ w.outcome[1].approved_prompt = None
                 /\ w.outcome[1].error
                        = ExhaustedError(w.max_iterations_arg[1])

\* a run called with max_iterations = -1 has returned
C35_Witness ==
    \E r \in DOMAIN wf :
        /\ wf[r].max_iterations_arg = Some(-1)
        /\ IsDone(wf[r])
        /\ wf[r].outcome[1].iterations = 0
        /\ wf[r].outcome[1].error = ExhaustedError(-1)

-----------------------------------------------------------------------------
(* C36 *)

\* C36: a returned conversation_log holds at most one entry with action
\* "error", that entry is the last one, and the outcome it belongs to has
\* success = false; the log of an approved or an exhausted outcome holds
\* none.
C36_ErrorEntryIsLast ==
    \A r \in DOMAIN wf :
        LET w == wf[r] IN
        IsDone(w)
        => LET log == w.outcome[1].conversation_log IN
           /\ Cardinality(ErrorEntries(log)) <= 1
           /\ ErrorEntries(log) \subseteq {Len(log)}
           /\ ErrorEntries(log) # {} => w.outcome[1].success = FALSE
           /\ w.outcome[1].success = TRUE => ErrorEntries(log) = {}
           /\ (/\ w.outcome[1].success = FALSE
               /\ w.outcome[1].error = ExhaustedError(w.max_iterations))
              => ErrorEntries(log) = {}

\* a run whose reviewer failed on the second attempt: four entries without
\* error and the error entry last
C36_Witness ==
    \E r \in DOMAIN wf :
        /\ IsDone(wf[r])
        /\ Len(wf[r].outcome[1].conversation_log) = 4
        /\ ErrorEntries(wf[r].outcome[1].conversation_log) = {4}
        /\ wf[r].outcome[1].conversation_log[4].agent = "ReviewerAgent"
        /\ wf[r].outcome[1].success = FALSE
        /\ ~wf[r].calls[4].result[1].raised
        /\ wf[r].calls[4].result[1].value.state = FAILED

-----------------------------------------------------------------------------
(* C37 *)

\* the reviewer server called evaluate for request q
EvaluateCalled(q) ==
    /\ task_handler = "handle_reviewer_task"
    /\ AgentAnswered(q)
    /\ ~IsNone(LastEnding(q).logic)

\* C37: evaluate never raises and returns a verdict whose status is APPROVED
\* or REJECTED and whose score is in 0..100; a response that is no JSON, an
\* unknown status, a score out of range and a failed model call give
\* REJECTED.
C37_EvaluateAlwaysGivesVerdict ==
    \A q \in DOMAIN req :
        EvaluateCalled(q)
        => LET e == LastEnding(q)
               g == e.logic[1].outcome IN
           /\ g.kind # "raises_before_generation"
           /\ e.value.state = COMPLETED
           /\ e.value.output[1].status \in {"APPROVED", "REJECTED"}
           /\ e.value.output[1].score \in 0..100
           /\ (\/ g.kind \in {"text", "raises"}
               \/ /\ g.kind = "json"
                  /\ \/ Get(g.dict, "score", 0) \notin 0..100
                     \/ Upper(Get(g.dict, "status", "REJECTED")) # "APPROVED")
              => e.value.output[1].status = "REJECTED"

-----------------------------------------------------------------------------
(* C38 *)

\* C38: create_shorts schedules the video pipeline only after
\* run_a2a_workflow returned success = true, once, with the approved prompt
\* of that run; after an aborted or exhausted run it schedules nothing and
\* answers with status "failed".
C38_PipelineOnlyAfterApproval ==
    \A q \in DOMAIN req :
        /\ req[q].background_tasks # <<>>
           => /\ q \in DOMAIN wf
              /\ IsDone(wf[q])
              /\ wf[q].outcome[1].success = TRUE
              /\ Len(req[q].background_tasks) = 1
              /\ req[q].background_tasks[1].approved_prompt
                     = wf[q].outcome[1].approved_prompt
              /\ req[q].background_tasks[1].approved_prompt
                     = Some(wf[q].conversation_log[
                                2 * wf[q].outcome[1].iterations - 1].output)
        /\ (/\ req[q].pc = "responded"
            /\ q \in DOMAIN wf
            /\ wf[q].outcome[1].success = FALSE)
           => /\ req[q].background_tasks = <<>>
              /\ req[q].response[1].status_code = 200
              /\ req[q].response[1].body.status = "failed"

\* a run approved on its second attempt, with contents that differ, and the
\* pipeline scheduled with the second one
C38_Witness ==
    \E q \in DOMAIN req :
        /\ req[q].pc = "responded"
        /\ Len(req[q].background_tasks) = 1
        /\ req[q].background_tasks[1].approved_prompt = Some("p2")
        /\ wf[q].outcome[1].iterations = 2
        /\ wf[q].conversation_log[1].output = "p1"
        /\ req[q].response[1].body.status = "processing"

-----------------------------------------------------------------------------
(* C39 *)

\* the planner or the reviewer was unhealthy and could not be started
AgentsUnavailable(rq) ==
    /\ ~IsNone(rq.agent_status)
    /\ ~(rq.planner_healthy[1] /\ rq.reviewer_healthy[1])
    /\ ~(rq.agent_status[1].planner /\ rq.agent_status[1].reviewer)

\* C39: when an agent is unhealthy and cannot be started, create_shorts
\* answers with HTTP status 503 and does not run the workflow.
C39_UnavailableAgentsGive503 ==
    \A q \in DOMAIN req :
        AgentsUnavailable(req[q])
        => /\ req[q].pc = "responded"
           /\ wf = <<>>
           /\ req[q].response[1].status_code = 503

-----------------------------------------------------------------------------
(* C40 *)

\* C40: resumable_upload calls next_chunk again only after a progress chunk
\* or a retriable failure; it raises once the retriable failures exceed
\* MAX_RETRIES, raises at once on any other error, and returns a URL only
\* for a response that holds a video id.
C40_RetriesOnlyRetriable ==
    \A q \in DOMAIN req :
        LET u == req[q] IN
        /\ u.retry = u.retriable_failures
        /\ u.pc = "loop"
           => /\ u.retry <= MAX_RETRIES
              /\ u.calls = u.progress + u.retriable_failures
              /\ ~IsNone(u.last)
                 => \/ u.last[1].kind = "progress"
                    \/ u.last[1] \in
                           {o \in ChunkOutcomes :
                                \/ /\ o.kind = "HttpError"
                                   /\ o.status \in RETRIABLE_STATUS_CODES
                                \/ /\ o.kind = "raises"
                                   /\ o.class \in RETRIABLE_EXCEPTIONS}
        /\ u.pc = "raised"
           => IF u.result = Some("retries exhausted")
              THEN /\ u.retriable_failures = MAX_RETRIES + 1
                   /\ u.calls = u.progress + u.retriable_failures
              ELSE /\ u.retriable_failures <= MAX_RETRIES
                   /\ u.calls = u.progress + u.retriable_failures + 1
                   /\ \/ /\ u.last[1].kind = "HttpError"
                         /\ u.last[1].status \notin RETRIABLE_STATUS_CODES
                      \/ /\ u.last[1].kind = "raises"
                         /\ u.last[1].class \notin RETRIABLE_EXCEPTIONS
                      \/ /\ u.last[1].kind = "response"
                         /\ "id" \notin DOMAIN u.last[1].response
        /\ u.pc = "returned"
           => /\ u.last[1].kind = "response"
              /\ "id" \in DOMAIN u.last[1].response
              /\ u.result = Some("https://www.youtube.com/watch?v="
                                 \o u.last[1].response.id)

\* the upload gave up: the eleventh retriable failure, a 503, was raised
C40_Witness ==
    \E q \in DOMAIN req :
        /\ req[q].pc = "raised"
        /\ req[q].retriable_failures = MAX_RETRIES + 1
        /\ req[q].last[1] = [kind |-> "HttpError", status |-> 503]
        /\ req[q].progress = 1

====
